---- MODULE Spec2Model ----
(***************************************************************************)
(* A model of the SSAL executor (executor.ts) and of its variable          *)
(* resolver.  Text is a sequence of one-character strings, so that the     *)
(* regular-expression replacements of replaceVariables are computed on     *)
(* characters as the code computes them.  Literal pieces of messages are   *)
(* kept as one chunk each.                                                 *)
(***************************************************************************)
EXTENDS Integers, Sequences, FiniteSets, TLC

VARIABLES
    script,           \* Executor.script: [variables, tasks]
    taskArgs,         \* Executor.taskArgs: task name -> positional arguments
    namedArgs,        \* Executor.namedArgs: entries [key, value] in insertion order
    globalVariables,  \* Executor.globalVariables: entries [key, value] in insertion order
    env,              \* process.env: name -> value, for the names that are set
    files,            \* the files that exist in the working directory
    stack,            \* the executeTask activations, innermost last
    ret,              \* result of a nested executeTask awaited by runTask
    pending,          \* the shell command of a run whose callback has not fired
    result,           \* what the last top-level executeTask returned
    console,          \* the lines written by console.log / console.warn
    executed,         \* history: the commands executed, with their results
    returned,         \* history: the executeTask activations that returned
    effects,          \* history: the side effects performed, by activation and command
    calls,            \* number of top-level executeTask calls made
    cli,              \* what the collaborator passes: [args, named]
    input,            \* resolver check: the text handed to replaceVariables
    taskName,         \* resolver check: the task it is resolved for
    resolved,         \* resolver check: the text replaceVariables returned
    raised,           \* the faults that left executeTask as a rejected promise
    suspended,        \* the calls of a caller that did not await: [stack, ret, pending]
    queue,            \* batch runner: the task names of the command line not yet run
    exit,             \* batch runner: the exit status, once the process has ended
    lines,            \* parser: content.split('\n')
    lineNo,           \* parser: the loop variable i of parseSSALContent, from 1
    currentTask       \* parser: index in script.tasks of currentTask, 0 for null

vars == <<script, taskArgs, namedArgs, globalVariables, env, files, stack, ret,
          pending, result, console, executed, returned, effects, calls, cli,
          input, taskName, resolved, raised, suspended, queue, exit, lines, lineNo,
          currentTask>>

(***************************************************************************)
(* Text helpers                                                            *)
(***************************************************************************)

\* String.prototype concatenation of template pieces
Cat3(a, b, c) == a \o b \o c

DigitChar == <<"0", "1", "2", "3", "4", "5", "6", "7", "8", "9">>

\* `${index + 1}`: the decimal digits of a positive number
RECURSIVE Decimal(_)
Decimal(n) ==
    IF n < 10 THEN <<DigitChar[n + 1]>>
    ELSE Decimal(n \div 10) \o <<DigitChar[(n % 10) + 1]>>

\* does the literal pattern p occur in t at position i
MatchAt(t, p, i) ==
    /\ i + Len(p) - 1 <= Len(t)
    /\ SubSeq(t, i, i + Len(p) - 1) = p

\* The replacement text of String.prototype.replace: $$ is a dollar sign, $& the
\* matched text, $` the text before the match, $' the text after it.  The
\* patterns built by replaceVariables have no capture group, so $1.. stay literal.
RECURSIVE GetSubstitution(_, _, _, _)
GetSubstitution(rep, matched, before, after) ==
    IF rep = <<>> THEN <<>>
    ELSE IF Head(rep) = "$" /\ Len(rep) >= 2 /\ rep[2] \in {"$", "&", "`", "'"}
    THEN (CASE rep[2] = "$" -> <<"$">>
            [] rep[2] = "&" -> matched
            [] rep[2] = "`" -> before
            [] rep[2] = "'" -> after)
         \o GetSubstitution(Tail(Tail(rep)), matched, before, after)
    ELSE <<Head(rep)>> \o GetSubstitution(Tail(rep), matched, before, after)

\* result.replace(new RegExp(<literal p>, 'g'), rep): every match, left to right,
\* without rescanning what was inserted
RECURSIVE ReplaceFrom(_, _, _, _)
ReplaceFrom(t, p, rep, i) ==
    IF i > Len(t) THEN <<>>
    ELSE IF MatchAt(t, p, i)
    THEN GetSubstitution(rep, p, SubSeq(t, 1, i - 1), SubSeq(t, i + Len(p), Len(t)))
         \o ReplaceFrom(t, p, rep, i + Len(p))
    ELSE <<t[i]>> \o ReplaceFrom(t, p, rep, i + 1)

ReplaceAll(t, p, rep) == ReplaceFrom(t, p, rep, 1)

\* result.replace(<string p>, rep): the first occurrence only
RECURSIVE ReplaceFirstFrom(_, _, _, _)
ReplaceFirstFrom(t, p, rep, i) ==
    IF i > Len(t) THEN <<>>
    ELSE IF MatchAt(t, p, i)
    THEN GetSubstitution(rep, p, SubSeq(t, 1, i - 1), SubSeq(t, i + Len(p), Len(t)))
         \o SubSeq(t, i + Len(p), Len(t))
    ELSE <<t[i]>> \o ReplaceFirstFrom(t, p, rep, i + 1)

ReplaceFirst(t, p, rep) == ReplaceFirstFrom(t, p, rep, 1)

(***************************************************************************)
(* replaceVariables                                                        *)
(***************************************************************************)

\* taskArgs.forEach((arg, index) => result.replace(/\?<index+1>/g, arg))
RECURSIVE ReplacePositional(_, _, _)
ReplacePositional(t, args, k) ==
    IF k > Len(args) THEN t
    ELSE ReplacePositional(ReplaceAll(t, <<"?">> \o Decimal(k), args[k]), args, k + 1)

\* for (const [key, value] of Object.entries(map)) result.replace(/<sigil><key>/g, value)
RECURSIVE ReplaceEntries(_, _, _, _)
ReplaceEntries(t, sigil, entries, k) ==
    IF k > Len(entries) THEN t
    ELSE ReplaceEntries(ReplaceAll(t, <<sigil>> \o entries[k].key, entries[k].value),
                        sigil, entries, k + 1)

\* for (const variable of this.script.variables) result.replace(/\$<name>/g, value)
RECURSIVE ReplaceDeclared(_, _, _)
ReplaceDeclared(t, variables, k) ==
    IF k > Len(variables) THEN t
    ELSE ReplaceDeclared(ReplaceAll(t, <<"$">> \o variables[k].name, variables[k].value),
                         variables, k + 1)

EnvOpen == <<"$", "e", "n", "v", "(", "\"">>

\* length of the match of /\$env\("([^"]+)"\)/ at position i, 0 when there is none
RECURSIVE EnvNameEnd(_, _)
EnvNameEnd(t, j) ==
    IF j > Len(t) \/ t[j] = "\"" THEN j ELSE EnvNameEnd(t, j + 1)

EnvMatchLen(t, i) ==
    IF ~MatchAt(t, EnvOpen, i) THEN 0
    ELSE LET s == i + Len(EnvOpen)
             e == EnvNameEnd(t, s)
         IN  IF e > s /\ e + 1 <= Len(t) /\ t[e] = "\"" /\ t[e + 1] = ")"
             THEN e + 2 - i
             ELSE 0

\* result.match(/\$env\("([^"]+)"\)/g): the matched substrings, left to right
RECURSIVE EnvMatches(_, _)
EnvMatches(t, i) ==
    IF i > Len(t) THEN <<>>
    ELSE LET n == EnvMatchLen(t, i)
         IN  IF n > 0 THEN <<SubSeq(t, i, i + n - 1)>> \o EnvMatches(t, i + n)
             ELSE EnvMatches(t, i + 1)

\* the loop over envVarMatches: a reference to a variable that is set is replaced
\* (first occurrence of the matched string), one that is unset is left alone
RECURSIVE ReplaceEnv(_, _, _, _)
ReplaceEnv(t, matches, e, k) ==
    IF k > Len(matches) THEN t
    ELSE LET m == matches[k]
             varName == SubSeq(m, Len(EnvOpen) + 1, Len(m) - 2)
         IN  ReplaceEnv(IF varName \in DOMAIN e THEN ReplaceFirst(t, m, e[varName]) ELSE t,
                        matches, e, k + 1)

\* this.taskArgs[taskName] || []
ArgsOf(name) == IF name \in DOMAIN taskArgs THEN taskArgs[name] ELSE <<>>

\* a resolver that substitutes the variables before the arguments
replaceVariablesVariablesFirst(name, text) ==
    LET r1 == ReplaceDeclared(text, script.variables, 1)
        r2 == ReplaceEntries(r1, "$", globalVariables, 1)
        r3 == ReplacePositional(r2, ArgsOf(name), 1)
        r4 == ReplaceEntries(r3, "?", namedArgs, 1)
    IN  ReplaceEnv(r4, EnvMatches(r4, 1), env, 1)

replaceVariables(name, text) ==
    LET r1 == ReplacePositional(text, ArgsOf(name), 1)
        r2 == ReplaceEntries(r1, "?", namedArgs, 1)
        r3 == ReplaceDeclared(r2, script.variables, 1)
        r4 == ReplaceEntries(r3, "$", globalVariables, 1)
    IN  ReplaceEnv(r4, EnvMatches(r4, 1), env, 1)

\* new RegExp(pattern) throws a SyntaxError: of the syntax of patterns the model
\* has the groups, a pattern is rejected when its parentheses do not pair up
RECURSIVE Unpaired(_, _, _)
Unpaired(pattern, i, depth) ==
    IF i > Len(pattern) THEN depth # 0
    ELSE IF pattern[i] = "(" THEN Unpaired(pattern, i + 1, depth + 1)
    ELSE IF pattern[i] = ")" THEN depth = 0 \/ Unpaired(pattern, i + 1, depth - 1)
    ELSE Unpaired(pattern, i + 1, depth)

InvalidPattern(pattern) == Unpaired(pattern, 1, 0)

\* taskArgs is an object literal: a name that is not registered is looked up in
\* Object.prototype, whose properties are no lists
ObjectPrototypeKeys ==
    {<<"c", "o", "n", "s", "t", "r", "u", "c", "t", "o", "r">>,
     <<"t", "o", "S", "t", "r", "i", "n", "g">>,
     <<"v", "a", "l", "u", "e", "O", "f">>}

\* this.taskArgs[taskName] is a function of Object.prototype: `|| []` does not
\* apply and taskArgs.forEach is not a function
InheritedArgs(name) == name \notin DOMAIN taskArgs /\ name \in ObjectPrototypeKeys

\* replaceVariables throws: the pattern built from a key of namedArgs is rejected,
\* or what it finds under the name of the executing task is no list
ResolverFault ==
    \/ \E k \in DOMAIN namedArgs : InvalidPattern(namedArgs[k].key)
    \/ IF stack = <<>> THEN FALSE ELSE InheritedArgs(stack[Len(stack)].name)

(***************************************************************************)
(* Bounds of the executor model                                            *)
(***************************************************************************)

MaxCommands == 2    \* commands in the generated task body
MaxCalls == 2       \* top-level executeTask calls on one executor
MaxDepth == 4       \* nested executeTask activations (the model's stack limit)

(***************************************************************************)
(* Results and messages                                                    *)
(***************************************************************************)

\* { success: true }
Ok == [success |-> TRUE]
Success(msg) == [success |-> TRUE, message |-> msg]
Failure(msg) == [success |-> FALSE, message |-> msg]

\* `Task "${taskName}" not found`
NotFoundMessage(name) == Cat3(<<"Task \"">>, name, <<"\" not found">>)
\* `Task "${taskName}" completed successfully`
CompletedMessage(name) == Cat3(<<"Task \"">>, name, <<"\" completed successfully">>)
\* `Unknown command: ${command.type}`
UnknownMessage(type) == <<"Unknown command: ", type>>
\* `Error executing command "${command.type}": ${error.message}`
ErrorExecutingMessage(type) == <<"Error executing command \"", type, "\": ", "error.message">>

KnownTypes == {"run", "del", "ech", "tsk", "var"}

(***************************************************************************)
(* The executor's position                                                 *)
(***************************************************************************)

\* this.script.tasks.find(t => t.name === taskName): index of the first match, 0 if none
FindTask(name) ==
    LET found == {i \in 1..Len(script.tasks) : script.tasks[i].name = name}
    IN  IF found = {} THEN 0 ELSE CHOOSE i \in found : \A j \in found : i <= j

Idle == stack = <<>> /\ pending = <<>> /\ ret = <<>>
Top == stack[Len(stack)]
Commands(frame) == script.tasks[frame.task].commands
CurrentCommand == Commands(Top)[Top.pc]

\* the for loop of executeTask is about to execute a command of this type
AtCommand(types) ==
    /\ stack # <<>>
    /\ ret = <<>>
    /\ pending = <<>>
    /\ Top.pc <= Len(Commands(Top))
    /\ CurrentCommand.type \in types

\* activations of the calls that are not the one running
RECURSIVE SuspendedDepth(_, _)
SuspendedDepth(contexts, k) ==
    IF k > Len(contexts) THEN 0
    ELSE Len(contexts[k].stack) + SuspendedDepth(contexts, k + 1)

\* number of executeTask activations started so far
Started == Len(returned) + Len(stack) + SuspendedDepth(suspended, 1)

Activation(name, index) == [id |-> Started + 1, name |-> name, task |-> index, pc |-> 1]

\* an executeTask that reports success whatever its commands returned
ReturnAlwaysSuccess(r) ==
    /\ returned' = Append(returned, [id |-> Top.id, task |-> Top.name,
                                     depth |-> Len(stack),
                                     result |-> Success(CompletedMessage(Top.name))])
    /\ stack' = SubSeq(stack, 1, Len(stack) - 1)
    /\ IF Len(stack) = 1
       THEN result' = <<Success(CompletedMessage(Top.name))>> /\ ret' = <<>>
       ELSE /\ ret' = <<[id |-> Top.id, task |-> Top.name,
                         result |-> Success(CompletedMessage(Top.name))]>>
            /\ UNCHANGED result

\* an executeTask activation returns r: to main when it is the outermost one,
\* to the runTask that awaits it otherwise
Return(r) ==
    /\ returned' = Append(returned, [id |-> Top.id, task |-> Top.name,
                                     depth |-> Len(stack), result |-> r])
    /\ stack' = SubSeq(stack, 1, Len(stack) - 1)
    /\ IF Len(stack) = 1
       THEN result' = <<r>> /\ ret' = <<>>
       ELSE ret' = <<[id |-> Top.id, task |-> Top.name, result |-> r]>> /\ UNCHANGED result

\* a loop that goes on to the next command whatever the result
ContinueFromLenient(r, callee) ==
    /\ executed' = Append(executed, [id |-> Top.id, task |-> Top.name, index |-> Top.pc,
                                     type |-> CurrentCommand.type, callee |-> callee,
                                     result |-> r])
    /\ stack' = [stack EXCEPT ![Len(stack)].pc = @ + 1]
    /\ ret' = <<>>
    /\ UNCHANGED <<returned, result>>

\* the body of the for loop after executeCommand returned r; callee is the nested
\* activation a tsk command awaited, 0 for the other commands
ContinueFrom(r, callee) ==
    /\ executed' = Append(executed, [id |-> Top.id, task |-> Top.name, index |-> Top.pc,
                                     type |-> CurrentCommand.type, callee |-> callee,
                                     result |-> r])
    /\ IF r.success
       THEN /\ stack' = [stack EXCEPT ![Len(stack)].pc = @ + 1]
            /\ ret' = <<>>
            /\ UNCHANGED <<returned, result>>
       ELSE Return(r)

Continue(r) == ContinueFrom(r, 0)

\* history of a side effect of the current command
Effect(kind, data) ==
    effects' = Append(effects, [id |-> Top.id, task |-> Top.name, index |-> Top.pc,
                                kind |-> kind, data |-> data])

\* this.globalVariables[name] = value
RECURSIVE PutFrom(_, _, _, _)
PutFrom(entries, key, value, k) ==
    IF k > Len(entries) THEN Append(entries, [key |-> key, value |-> value])
    ELSE IF entries[k].key = key THEN [entries EXCEPT ![k].value = value]
    ELSE PutFrom(entries, key, value, k + 1)

Put(entries, key, value) == PutFrom(entries, key, value, 1)

\* path.resolve(this.workingDir, filePath)
workingDir == <<"/wd">>
ResolvePath(filePath) ==
    IF filePath # <<>> /\ filePath[1] = "/" THEN filePath
    ELSE workingDir \o <<"/">> \o filePath

(***************************************************************************)
(* Operations                                                              *)
(***************************************************************************)

Unused ==
    UNCHANGED <<cli, input, taskName, resolved, raised, suspended, queue, exit, lines,
                lineNo, currentTask>>

\* setTaskArgs(taskName, args)
SetTaskArgs(name, args) == taskArgs' = (name :> args) @@ taskArgs

\* setNamedArgs(args)
SetNamedArgs(args) == namedArgs' = args

\* an executeTask that treats a missing task as a task without commands
ExecuteTaskMissingOk(name) ==
    IF FindTask(name) = 0
    THEN /\ result' = <<Success(CompletedMessage(name))>>
         /\ returned' = Append(returned, [id |-> Started + 1, task |-> name, depth |-> 1,
                                          result |-> Success(CompletedMessage(name))])
         /\ UNCHANGED stack
    ELSE /\ stack' = <<Activation(name, FindTask(name))>>
         /\ UNCHANGED <<result, returned>>

\* executeTask(taskName) up to its first await, or to the return of "not found"
ExecuteTask(name) ==
    IF FindTask(name) = 0
    THEN /\ result' = <<Failure(NotFoundMessage(name))>>
         /\ returned' = Append(returned, [id |-> Started + 1, task |-> name, depth |-> 1,
                                          result |-> Failure(NotFoundMessage(name))])
         /\ UNCHANGED stack
    ELSE /\ stack' = <<Activation(name, FindTask(name))>>
         /\ UNCHANGED <<result, returned>>

\* a main that gives every call a runtime variable store of its own
InvokeFreshStore(name) ==
    /\ Idle
    /\ calls < MaxCalls
    /\ calls' = calls + 1
    /\ SetTaskArgs(name, cli.args)
    /\ SetNamedArgs(cli.named)
    /\ ExecuteTask(name)
    /\ globalVariables' = <<>>
    /\ UNCHANGED <<script, env, files, ret, pending, console, executed, effects>>
    /\ Unused

\* main, for each task named on the command line: setTaskArgs, setNamedArgs, then
\* executeTask, whose result it awaits before it goes on
Invoke(name) ==
    /\ Idle
    /\ calls < MaxCalls
    /\ calls' = calls + 1
    /\ SetTaskArgs(name, cli.args)
    /\ SetNamedArgs(cli.named)
    /\ ExecuteTask(name)
    /\ UNCHANGED <<script, globalVariables, env, files, ret, pending, console, executed,
                   effects>>
    /\ Unused

\* case 'ech': echo(replaceVariables(taskName, command.args[0]))
Echo ==
    /\ AtCommand({"ech"})
    /\ ~ResolverFault
    /\ console' = Append(console, replaceVariables(Top.name, CurrentCommand.args[1]))
    /\ Effect("echo", replaceVariables(Top.name, CurrentCommand.args[1]))
    /\ Continue(Ok)
    /\ UNCHANGED <<script, taskArgs, namedArgs, globalVariables, env, files, pending, calls>>
    /\ Unused

\* a var command that stores its second argument as written
SetVariableUnresolved ==
    /\ AtCommand({"var"})
    /\ ~ResolverFault
    /\ globalVariables' = Put(globalVariables, CurrentCommand.args[1], CurrentCommand.args[2])
    /\ Effect("assign", <<CurrentCommand.args[1], CurrentCommand.args[2]>>)
    /\ Continue(Ok)
    /\ UNCHANGED <<script, taskArgs, namedArgs, env, files, pending, console, calls>>
    /\ Unused

\* case 'var': setVariable(command.args[0], replaceVariables(taskName, command.args[1]))
SetVariable ==
    /\ AtCommand({"var"})
    /\ ~ResolverFault
    /\ globalVariables' = Put(globalVariables, CurrentCommand.args[1],
                              replaceVariables(Top.name, CurrentCommand.args[2]))
    /\ Effect("assign", <<CurrentCommand.args[1],
                          replaceVariables(Top.name, CurrentCommand.args[2])>>)
    /\ Continue(Ok)
    /\ UNCHANGED <<script, taskArgs, namedArgs, env, files, pending, console, calls>>
    /\ Unused

\* a deleteFile for which a missing file is an error
DeleteFileStrict(fault) ==
    /\ AtCommand({"del"})
    /\ ~ResolverFault
    /\ LET filePath == replaceVariables(Top.name, CurrentCommand.args[1])
           fullPath == ResolvePath(filePath)
       IN  IF fullPath \in files
           THEN IF fault
                THEN /\ Continue(Failure(Cat3(<<"Failed to delete ">>, filePath,
                                              <<": ", "error.message">>)))
                     /\ UNCHANGED <<files, console, effects>>
                ELSE /\ files' = files \ {fullPath}
                     /\ console' = Append(console, <<"Deleted: ">> \o filePath)
                     /\ Effect("delete", fullPath)
                     /\ Continue(Ok)
           ELSE /\ ~fault
                /\ Continue(Failure(Cat3(<<"Failed to delete ">>, filePath,
                                         <<": ", "error.message">>)))
                /\ UNCHANGED <<files, console, effects>>
    /\ UNCHANGED <<script, taskArgs, namedArgs, globalVariables, env, pending, calls>>
    /\ Unused

\* case 'del': deleteFile(replaceVariables(taskName, command.args[0])); unlinkSync
\* of an existing path may throw (a directory, no permission)
DeleteFile(fault) ==
    /\ AtCommand({"del"})
    /\ ~ResolverFault
    /\ LET filePath == replaceVariables(Top.name, CurrentCommand.args[1])
           fullPath == ResolvePath(filePath)
       IN  IF fullPath \in files
           THEN IF fault
                THEN /\ Continue(Failure(Cat3(<<"Failed to delete ">>, filePath,
                                              <<": ", "error.message">>)))
                     /\ UNCHANGED <<files, console, effects>>
                ELSE /\ files' = files \ {fullPath}
                     /\ console' = Append(console, <<"Deleted: ">> \o filePath)
                     /\ Effect("delete", fullPath)
                     /\ Continue(Ok)
           ELSE /\ ~fault
                /\ console' = Append(console, Cat3(<<"Warning: File ">>, filePath,
                                                   <<" does not exist">>))
                /\ Effect("warn", fullPath)
                /\ Continue(Ok)
                /\ UNCHANGED files
    /\ UNCHANGED <<script, taskArgs, namedArgs, globalVariables, env, pending, calls>>
    /\ Unused

\* an executor that undoes the var assignments when a command fails
UnknownCommandRollsBack ==
    /\ stack # <<>> /\ ret = <<>> /\ pending = <<>>
    /\ Top.pc <= Len(Commands(Top))
    /\ CurrentCommand.type \notin KnownTypes
    /\ Continue(Failure(UnknownMessage(CurrentCommand.type)))
    /\ globalVariables' = <<>>
    /\ UNCHANGED <<script, taskArgs, namedArgs, env, files, pending, console, effects,
                   calls>>
    /\ Unused

\* an executeCommand that passes over a command it does not know
UnknownCommandSkipped ==
    /\ stack # <<>> /\ ret = <<>> /\ pending = <<>>
    /\ Top.pc <= Len(Commands(Top))
    /\ CurrentCommand.type \notin KnownTypes
    /\ Continue(Ok)
    /\ UNCHANGED <<script, taskArgs, namedArgs, globalVariables, env, files, pending,
                   console, effects, calls>>
    /\ Unused

\* default: Unknown command
UnknownCommand ==
    /\ stack # <<>> /\ ret = <<>> /\ pending = <<>>
    /\ Top.pc <= Len(Commands(Top))
    /\ CurrentCommand.type \notin KnownTypes
    /\ Continue(Failure(UnknownMessage(CurrentCommand.type)))
    /\ UNCHANGED <<script, taskArgs, namedArgs, globalVariables, env, files, pending,
                   console, effects, calls>>
    /\ Unused

\* case 'run': runCommand(...) up to the call of exec
RunCommand ==
    /\ AtCommand({"run"})
    /\ ~ResolverFault
    /\ LET command == replaceVariables(Top.name, CurrentCommand.args[1])
       IN  /\ console' = Append(console, <<"Running: ">> \o command)
           /\ pending' = <<command>>
           /\ Effect("spawn", command)
    /\ UNCHANGED <<script, taskArgs, namedArgs, globalVariables, env, files, stack, ret,
                   result, executed, returned, calls>>
    /\ Unused

\* exec throws before it has spawned anything: the promise of runCommand is
\* rejected and the catch of executeCommand makes a result of it
SpawnFault ==
    /\ AtCommand({"run"})
    /\ ~ResolverFault
    /\ console' = Append(console, <<"Running: ">> \o
                                  replaceVariables(Top.name, CurrentCommand.args[1]))
    /\ Continue(Failure(ErrorExecutingMessage("run")))
    /\ UNCHANGED <<script, taskArgs, namedArgs, globalVariables, env, files, pending,
                   effects, calls>>
    /\ Unused

\* an executor without its catch clauses: the fault leaves executeTask
ResolveFaultUncaught ==
    /\ AtCommand(KnownTypes)
    /\ ResolverFault
    /\ raised' = Append(raised, [task |-> stack[1].name, type |-> CurrentCommand.type])
    /\ stack' = <<>>
    /\ UNCHANGED <<script, taskArgs, namedArgs, globalVariables, env, files, ret, pending,
                   result, console, executed, returned, effects, calls, cli, input,
                   taskName, resolved, suspended, queue, exit, lines, lineNo, currentTask>>

\* replaceVariables throws in a case of executeCommand: the catch of executeCommand
\* makes a result of the fault, before the command has done anything
ResolveFault ==
    /\ AtCommand(KnownTypes)
    /\ ResolverFault
    /\ Continue(Failure(ErrorExecutingMessage(CurrentCommand.type)))
    /\ UNCHANGED <<script, taskArgs, namedArgs, globalVariables, env, files, pending,
                   console, effects, calls>>
    /\ Unused

\* the callback of exec: resolves the promise runCommand returned
ExecCallback(error) ==
    /\ pending # <<>>
    /\ pending' = <<>>
    /\ Continue(IF error THEN Failure(<<"Command failed: ", "error.message">>)
                ELSE Success(<<"Command executed successfully">>))
    /\ UNCHANGED <<script, taskArgs, namedArgs, globalVariables, env, files, console,
                   effects, calls>>
    /\ Unused

\* a runTask that refuses to start a task that is already running
RunTaskDetectsCycle ==
    /\ AtCommand({"tsk"})
    /\ ~ResolverFault
    /\ Len(stack) < MaxDepth
    /\ LET name == replaceVariables(Top.name, CurrentCommand.args[1])
       IN  /\ console' = Append(console, <<"Running task: ">> \o name)
           /\ Effect("call", name)
           /\ IF FindTask(name) = 0 \/ \E i \in DOMAIN stack : stack[i].name = name
              THEN /\ ret' = <<[id |-> Started + 1, task |-> name,
                                result |-> Failure(NotFoundMessage(name))]>>
                   /\ returned' = Append(returned,
                          [id |-> Started + 1, task |-> name, depth |-> Len(stack) + 1,
                           result |-> Failure(NotFoundMessage(name))])
                   /\ UNCHANGED stack
              ELSE /\ stack' = Append(stack, Activation(name, FindTask(name)))
                   /\ UNCHANGED <<ret, returned>>
    /\ UNCHANGED <<script, taskArgs, namedArgs, globalVariables, env, files, pending,
                   result, executed, calls>>
    /\ Unused

\* a runTask that gives the nested task a variable store of its own
RunTaskOwnScope ==
    /\ AtCommand({"tsk"})
    /\ ~ResolverFault
    /\ Len(stack) < MaxDepth
    /\ LET name == replaceVariables(Top.name, CurrentCommand.args[1])
       IN  /\ console' = Append(console, <<"Running task: ">> \o name)
           /\ Effect("call", name)
           /\ IF FindTask(name) = 0
              THEN /\ ret' = <<[id |-> Started + 1, task |-> name,
                                result |-> Failure(NotFoundMessage(name))]>>
                   /\ returned' = Append(returned,
                          [id |-> Started + 1, task |-> name, depth |-> Len(stack) + 1,
                           result |-> Failure(NotFoundMessage(name))])
                   /\ UNCHANGED <<stack, globalVariables>>
              ELSE /\ stack' = Append(stack, Activation(name, FindTask(name)))
                   /\ globalVariables' = <<>>
                   /\ UNCHANGED <<ret, returned>>
    /\ UNCHANGED <<script, taskArgs, namedArgs, env, files, pending, result, executed, calls>>
    /\ Unused

\* case 'tsk': runTask(name) up to `await this.executeTask(taskName)`
RunTask ==
    /\ AtCommand({"tsk"})
    /\ ~ResolverFault
    /\ Len(stack) < MaxDepth
    /\ LET name == replaceVariables(Top.name, CurrentCommand.args[1])
       IN  /\ console' = Append(console, <<"Running task: ">> \o name)
           /\ Effect("call", name)
           /\ IF FindTask(name) = 0
              THEN /\ ret' = <<[id |-> Started + 1, task |-> name,
                                result |-> Failure(NotFoundMessage(name))]>>
                   /\ returned' = Append(returned,
                          [id |-> Started + 1, task |-> name, depth |-> Len(stack) + 1,
                           result |-> Failure(NotFoundMessage(name))])
                   /\ UNCHANGED stack
              ELSE /\ stack' = Append(stack, Activation(name, FindTask(name)))
                   /\ UNCHANGED <<ret, returned>>
    /\ UNCHANGED <<script, taskArgs, namedArgs, globalVariables, env, files, pending,
                   result, executed, calls>>
    /\ Unused

\* a runTask that reports a nested failure in words of its own
RunTaskResultWrapped(awaited) ==
    IF awaited.result.success THEN Success(CompletedMessage(awaited.task))
    ELSE Failure(Cat3(<<"Task \"">>, awaited.task, <<"\" failed">>))

\* runTask after the await: a failure is handed on, a success is reported anew
RunTaskResult(awaited) ==
    IF awaited.result.success THEN Success(CompletedMessage(awaited.task))
    ELSE awaited.result

RunTaskReturn ==
    /\ stack # <<>>
    /\ ret # <<>>
    /\ ContinueFrom(RunTaskResult(ret[1]), ret[1].id)
    /\ UNCHANGED <<script, taskArgs, namedArgs, globalVariables, env, files, pending,
                   console, effects, calls>>
    /\ Unused

\* executeTask after the for loop: every command succeeded
TaskCompleted ==
    /\ stack # <<>> /\ ret = <<>> /\ pending = <<>>
    /\ Top.pc > Len(Commands(Top))
    /\ Return(Success(CompletedMessage(Top.name)))
    /\ UNCHANGED <<script, taskArgs, namedArgs, globalVariables, env, files, pending,
                   console, executed, effects, calls>>
    /\ Unused

(***************************************************************************)
(* Scripts and inputs of the executor model                                *)
(***************************************************************************)

Cmd(type, args) == [type |-> type, args |-> args]

EchA == Cmd("ech", << <<"$", "A">> >>)                    \* ech "$A"
VarA == Cmd("var", << <<"A">>, <<"c">> >>)                \* var A = "c"
VarB == Cmd("var", << <<"B">>, <<"$", "A", "?", "1">> >>) \* var B = "$A?1"
TskB == Cmd("tsk", << <<"b">> >>)                         \* tsk "b"
TskA == Cmd("tsk", << <<"$", "A">> >>)                    \* tsk "$A"
DelF == Cmd("del", << <<"f">> >>)                         \* del "f"
RunR == Cmd("run", << <<"r">> >>)                         \* run "r"
FooX == Cmd("foo", << <<"x">> >>)                         \* foo "x"
VarY == Cmd("var", << <<"A">>, <<"y">> >>)                \* var A = "y"
EchP == Cmd("ech", << <<"?", "1", "?", "k">> >>)          \* ech "?1?k"

TskC == Cmd("tsk", << <<"c">> >>)                         \* tsk "c"

Pool == {EchA, VarA, TskB, FooX}

SeqsUpTo(S, n) == UNION {[1..k -> S] : k \in 0..n}

BodiesA == SeqsUpTo(Pool, MaxCommands)
BodiesB == {<<VarY>>, <<EchA, TskA, RunR>>, <<RunR, DelF, DelF>>, <<TskC, VarY, TskC, EchA>>}
BodyC == <<EchA, VarB, EchP, DelF>>

Task(name, commands) == [name |-> name, commands |-> commands]
Variable(name, value) == [name |-> name, value |-> value]

\* the scripts with the global declarations v
Scripts(v) ==
    {[variables |-> v,
      tasks |-> <<Task(<<"a">>, ca), Task(<<"b">>, cb), Task(<<"c">>, BodyC),
                  Task(<<"a">>, <<FooX>>)>>] : ca \in BodiesA, cb \in BodiesB}

CallNames == {<<"a">>, <<"b">>, <<"n">>}

NoInputs == [args |-> <<>>, named |-> <<>>]
SomeInputs == [args |-> << <<"p">> >>, named |-> <<[key |-> <<"k">>, value |-> <<"v">>]>>]
\* ssal --( v: a named argument whose key is no pattern
BadInputs == [args |-> <<>>, named |-> <<[key |-> <<"(">>, value |-> <<"v">>]>>]

\* global declarations of the script, what the collaborator passes, the files in
\* the working directory, and the bodies of task b run under these
Configurations ==
    {[variables |-> <<>>, cli |-> NoInputs, files |-> {ResolvePath(<<"f">>)},
      bodies |-> BodiesB \ {<<EchA, TskA, RunR>>}],
     [variables |-> <<>>, cli |-> SomeInputs, files |-> {},
      bodies |-> {<<RunR, DelF, DelF>>}],
     [variables |-> <<Variable(<<"A">>, <<"d">>)>>, cli |-> SomeInputs,
      files |-> {ResolvePath(<<"f">>)}, bodies |-> {<<EchA, TskA, RunR>>}],
     [variables |-> <<>>, cli |-> BadInputs, files |-> {ResolvePath(<<"f">>)},
      bodies |-> {<<RunR, DelF, DelF>>}]}

\* the scripts run under a configuration
ScriptsOf(c) == {s \in Scripts(c.variables) : s.tasks[2].commands \in c.bodies}

Init ==
    /\ \E c \in Configurations :
           script \in ScriptsOf(c) /\ cli = c.cli /\ files = c.files
    /\ taskArgs = <<>>
    /\ namedArgs = <<>>
    /\ globalVariables = <<>>
    /\ env = <<>>
    /\ stack = <<>>
    /\ ret = <<>>
    /\ pending = <<>>
    /\ result = <<>>
    /\ console = <<>>
    /\ executed = <<>>
    /\ returned = <<>>
    /\ effects = <<>>
    /\ calls = 0
    /\ input = <<>>
    /\ taskName = <<>>
    /\ resolved = <<>>
    /\ raised = <<>>
    /\ suspended = <<>>
    /\ queue = <<>>
    /\ exit = <<>>
    /\ lines = <<>>
    /\ lineNo = 0
    /\ currentTask = 0

Next ==
    \/ \E name \in CallNames : Invoke(name)
    \/ Echo
    \/ SetVariable
    \/ \E fault \in BOOLEAN : DeleteFile(fault)
    \/ UnknownCommand
    \/ RunCommand
    \/ SpawnFault
    \/ ResolveFault
    \/ \E error \in BOOLEAN : ExecCallback(error)
    \/ RunTask
    \/ RunTaskReturn
    \/ TaskCompleted

Spec == Init /\ [][Next]_vars

(***************************************************************************)
(* Reading the histories                                                   *)
(***************************************************************************)

ExecutedOf(id) == SelectSeq(executed, LAMBDA e : e.id = id)
EffectsOf(id) == SelectSeq(effects, LAMBDA e : e.id = id)
HasReturned(id) == \E r \in DOMAIN returned : returned[r].id = id
ReturnedEntry(id) == returned[CHOOSE r \in DOMAIN returned : returned[r].id = id]
OnStack(id) == \E i \in DOMAIN stack : stack[i].id = id
CommandsOf(name) == script.tasks[FindTask(name)].commands

\* the activation whose tsk command awaited activation id, 0 when there is none
\* (a top-level call) or when that tsk command has not completed yet
CallerOf(id) ==
    IF \E k \in DOMAIN executed : executed[k].callee = id
    THEN executed[CHOOSE k \in DOMAIN executed : executed[k].callee = id].id
    ELSE 0

RECURSIVE AncestorsOf(_)
AncestorsOf(id) ==
    IF CallerOf(id) = 0 THEN {} ELSE {CallerOf(id)} \cup AncestorsOf(CallerOf(id))

(***************************************************************************)
(* C1: executeTask runs the commands of the task in declared order and     *)
(* stops at the first command whose result has success = false: it returns *)
(* exactly that result, and no later command of the task has any effect.   *)
(***************************************************************************)
C1_ShortCircuit ==
    \A id \in 1..Started :
        LET ex == ExecutedOf(id)
            ef == EffectsOf(id)
        IN  /\ \A k \in DOMAIN ex :
                   /\ ex[k].index = k
                   /\ ex[k].type = CommandsOf(ex[k].task)[k].type
            /\ \A j \in DOMAIN ef :
                   /\ ef[j].index <= Len(ex) + 1
                   /\ j > 1 => ef[j - 1].index <= ef[j].index
            /\ \A k \in DOMAIN ex :
                   ~ex[k].result.success =>
                       /\ k = Len(ex)
                       /\ \A j \in DOMAIN ef : ef[j].index <= k
                       /\ ~OnStack(id)
                       /\ HasReturned(id)
                       /\ ReturnedEntry(id).result = ex[k].result

\* a command failed although commands were left in its task, and the task returned
C1_Witness ==
    \E k \in DOMAIN executed :
        /\ ~executed[k].result.success
        /\ executed[k].index < Len(CommandsOf(executed[k].task))
        /\ executed[k].index > 1
        /\ HasReturned(executed[k].id)

(***************************************************************************)
(* C2: executeTask(name) returns success = true exactly when a task named  *)
(* name exists and every one of its commands returned success (a task with *)
(* no commands succeeds); the message is then                              *)
(* Task "<name>" completed successfully.                                   *)
(***************************************************************************)
C2_SuccessIffAllSucceed ==
    \A r \in DOMAIN returned :
        LET rt == returned[r]
            ex == ExecutedOf(rt.id)
        IN  /\ rt.result.success <=>
                   /\ FindTask(rt.task) # 0
                   /\ Len(ex) = Len(CommandsOf(rt.task))
                   /\ \A k \in DOMAIN ex : ex[k].result.success
            /\ rt.result.success => rt.result = Success(CompletedMessage(rt.task))

\* a task without commands and a task with commands have both returned success
C2_Witness ==
    /\ \E r \in DOMAIN returned :
           /\ returned[r].result.success
           /\ CommandsOf(returned[r].task) = <<>>
    /\ \E r \in DOMAIN returned :
           /\ returned[r].result.success
           /\ Len(CommandsOf(returned[r].task)) >= 2

(***************************************************************************)
(* C3: executeTask(name) on a script with no task named name returns       *)
(* success = false with the message Task "<name>" not found, executes no   *)
(* command and leaves the runtime variable store unchanged, also when name *)
(* is the resolved argument of a tsk command.                              *)
(***************************************************************************)
NotFoundReturned(r) == FindTask(returned[r].task) = 0

C3_NotFound ==
    /\ [](\A r \in DOMAIN returned :
              NotFoundReturned(r) =>
                  /\ returned[r].result = Failure(NotFoundMessage(returned[r].task))
                  /\ ExecutedOf(returned[r].id) = <<>>
                  /\ EffectsOf(returned[r].id) = <<>>)
    /\ [][(/\ Len(returned') = Len(returned) + 1
           /\ FindTask(returned'[Len(returned')].task) = 0)
          => /\ globalVariables' = globalVariables
             /\ executed' = executed
             /\ files' = files
             /\ returned'[Len(returned')].depth = 1
                    => result' = <<Failure(NotFoundMessage(returned'[Len(returned')].task))>>]_vars

\* a tsk command whose argument had to be resolved named a task that does not exist
C3_Witness ==
    \E r \in DOMAIN returned :
        /\ NotFoundReturned(r)
        /\ returned[r].depth >= 2
        /\ returned[r].task \in {<<"d">>, <<"y">>}
        /\ globalVariables # <<>>

(***************************************************************************)
(* C4: failure propagates through tsk at any depth: when executeTask(B),   *)
(* called by a tsk command of task A, returns a failure r, the tsk command *)
(* returns r unchanged, executeTask(A) returns r unchanged and no command  *)
(* of A after the tsk command is executed; transitively along A -> B -> C. *)
(***************************************************************************)
C4_FailurePropagates ==
    /\ \A k \in DOMAIN executed :
           LET e == executed[k]
           IN  (e.callee # 0 /\ ~ReturnedEntry(e.callee).result.success) =>
                   /\ e.result = ReturnedEntry(e.callee).result
                   /\ HasReturned(e.id)
                   /\ ReturnedEntry(e.id).result = ReturnedEntry(e.callee).result
                   /\ e.index = Len(ExecutedOf(e.id))
                   /\ \A j \in DOMAIN effects :
                          effects[j].id = e.id => effects[j].index <= e.index
    /\ \A r \in DOMAIN returned :
           ~returned[r].result.success =>
               \A a \in AncestorsOf(returned[r].id) :
                   /\ HasReturned(a)
                   /\ ReturnedEntry(a).result = returned[r].result

\* a failure three activations deep has come back to the outermost task, which had
\* commands left after its tsk command
C4_Witness ==
    \E r \in DOMAIN returned :
        /\ ~returned[r].result.success
        /\ returned[r].depth = 3
        /\ Cardinality(AncestorsOf(returned[r].id)) = 2
        /\ \E k \in DOMAIN executed :
               /\ executed[k].id \in AncestorsOf(returned[r].id)
               /\ executed[k].callee # 0
               /\ ReturnedEntry(executed[k].id).depth = 1
               /\ executed[k].index < Len(CommandsOf(executed[k].task))

(***************************************************************************)
(* C5: after a var NAME "V" command has executed, every later resolution   *)
(* of $NAME on the same executor yields the newly assigned value, also     *)
(* when the script declares a global variable of the same NAME.            *)
(* Stated on the ech commands whose argument is exactly $NAME.             *)
(***************************************************************************)
AssignedBefore(name, j) ==
    {i \in 1..(j - 1) : effects[i].kind = "assign" /\ effects[i].data[1] = name}

LastAssignedBefore(name, j) ==
    effects[CHOOSE i \in AssignedBefore(name, j) :
                \A h \in AssignedBefore(name, j) : h <= i].data[2]

EchoArgument(j) == CommandsOf(effects[j].task)[effects[j].index].args[1]

C5_RuntimeValueWins ==
    \A j \in DOMAIN effects :
        effects[j].kind = "echo" =>
            \A i \in 1..(j - 1) :
                (/\ effects[i].kind = "assign"
                 /\ EchoArgument(j) = <<"$">> \o effects[i].data[1])
                => effects[j].data = LastAssignedBefore(effects[i].data[1], j)

(***************************************************************************)
(* C6: executing a var command with arguments [N, V] returns success, and  *)
(* afterwards the runtime variable store maps the literal name N to the    *)
(* resolution of V computed when the command executed, overwriting any     *)
(* earlier entry for N; no other entry of the store changes.               *)
(***************************************************************************)
Keys(entries) == {entries[k].key : k \in DOMAIN entries}
Lookup(entries, key) == entries[CHOOSE k \in DOMAIN entries : entries[k].key = key].value

C6_VarCommand ==
    [][(/\ Len(executed') = Len(executed) + 1
        /\ executed'[Len(executed')].type = "var")
       => LET N == CurrentCommand.args[1]
              V == CurrentCommand.args[2]
          IN  /\ executed'[Len(executed')].result.success
              /\ Keys(globalVariables') = Keys(globalVariables) \cup {N}
              /\ Cardinality({k \in DOMAIN globalVariables' :
                                  globalVariables'[k].key = N}) = 1
              /\ Lookup(globalVariables', N) = replaceVariables(Top.name, V)
              /\ \A key \in Keys(globalVariables) \ {N} :
                     Lookup(globalVariables', key) = Lookup(globalVariables, key)]_vars

\* a name was assigned twice with different values, and a value was stored that
\* differs from the second argument as written
C6_Witness ==
    /\ \E i, j \in DOMAIN effects :
           /\ i < j
           /\ effects[i].kind = "assign" /\ effects[j].kind = "assign"
           /\ effects[i].data[1] = effects[j].data[1]
           /\ effects[i].data[2] # effects[j].data[2]
           /\ Lookup(globalVariables, effects[j].data[1]) = effects[j].data[2]
    /\ \E j \in DOMAIN effects :
           /\ effects[j].kind = "assign"
           /\ effects[j].data[2] # CommandsOf(effects[j].task)[effects[j].index].args[2]
    /\ Len(globalVariables) >= 2

(***************************************************************************)
(* C7: the runtime variable store and the named-argument map are shared by *)
(* all tasks reached through tsk, without stack-local shadowing: at every  *)
(* moment, whatever the nesting, the one store holds every assignment made *)
(* so far by a var command (the latest per name), and the named arguments  *)
(* are those the caller set.                                               *)
(***************************************************************************)
RECURSIVE Replay(_, _, _)
Replay(store, log, k) ==
    IF k > Len(log) THEN store
    ELSE Replay(IF log[k].kind = "assign"
                THEN Put(store, log[k].data[1], log[k].data[2])
                ELSE store, log, k + 1)

C7_SharedStore ==
    /\ globalVariables = Replay(<<>>, effects, 1)
    /\ stack # <<>> => namedArgs = cli.named

\* an assignment made in a nested task was printed by the caller after the nested
\* task returned, and an assignment made by the caller was printed in a nested task
C7_Witness ==
    /\ script.variables = <<>>
    /\ \E i, j \in DOMAIN effects :
           /\ i < j
           /\ effects[i].kind = "assign" /\ effects[i].data[1] = <<"A">>
           /\ effects[j].kind = "echo" /\ EchoArgument(j) = <<"$", "A">>
           /\ effects[j].data = effects[i].data[2]
           /\ CallerOf(effects[i].id) = effects[j].id
    /\ \E i, j \in DOMAIN effects :
           /\ i < j
           /\ effects[i].kind = "assign" /\ effects[i].data[1] = <<"A">>
           /\ effects[j].kind = "echo" /\ EchoArgument(j) = <<"$", "A">>
           /\ effects[j].data = effects[i].data[2]
           /\ effects[i].id \in AncestorsOf(effects[j].id)

(***************************************************************************)
(* The resolver on its own: replaceVariables applied once to inputs drawn  *)
(* from bounded sets                                                       *)
(***************************************************************************)

MaxVars == 2     \* global declarations of the script
MaxArgs == 2     \* positional arguments registered for the task
MaxIndex == 12   \* largest k of a token ?k in the text

VarNames == {<<"A">>, <<"B">>, <<"A", "B">>}
VarValues == {<<"x">>, <<"y">>}
Declarations == {Variable(n, v) : n \in VarNames, v \in VarValues}
ArgValues == {<<"a">>, <<"b">>}

Reference(name) == <<"$">> \o name
Token(k) == <<"?">> \o Decimal(k)

DeclaredInputs == {Reference(n) : n \in VarNames} \cup {<<"$", "A", "-", "$", "B">>}
PositionalInputs == {Token(k) : k \in 1..MaxIndex} \cup {<<"?", "1", "-", "?", "2">>}

ResolverIdle ==
    /\ files = {}
    /\ stack = <<>>
    /\ ret = <<>>
    /\ pending = <<>>
    /\ result = <<>>
    /\ console = <<>>
    /\ executed = <<>>
    /\ returned = <<>>
    /\ effects = <<>>
    /\ calls = 0
    /\ cli = [args |-> <<>>, named |-> <<>>]
    /\ taskName = <<"t">>
    /\ resolved = <<>>
    /\ raised = <<>>
    /\ suspended = <<>>
    /\ queue = <<>>
    /\ exit = <<>>
    /\ lines = <<>>
    /\ lineNo = 0
    /\ currentTask = 0

\* scripts that differ in their global declarations, resolved without arguments
InitDeclared ==
    /\ script \in {[variables |-> v, tasks |-> <<Task(<<"t">>, <<>>)>>] :
                       v \in SeqsUpTo(Declarations, MaxVars)}
    /\ taskArgs = <<>>
    /\ namedArgs = <<>>
    /\ globalVariables = <<>>
    /\ env = <<>>
    /\ input \in DeclaredInputs

\* positional arguments registered for the task, no variables
InitPositional ==
    /\ script = [variables |-> <<>>, tasks |-> <<Task(<<"t">>, <<>>)>>]
    /\ taskArgs \in {(<<"t">> :> args) : args \in SeqsUpTo(ArgValues, MaxArgs)}
    /\ namedArgs = <<>>
    /\ globalVariables = <<>>
    /\ env = <<>>
    /\ input \in PositionalInputs

FOO == <<"F", "O", "O">>
EnvReference(name) == EnvOpen \o name \o <<"\"", ")">>
EnvInputs == {EnvReference(FOO), <<"<">> \o EnvReference(FOO) \o <<">">>}

\* process.env with FOO unset, set to "bar", or set to the empty string
Environments == {<<>>, (FOO :> <<"b", "a", "r">>), (FOO :> <<>>)}

\* environment references, no arguments and no variables
InitEnv ==
    /\ script = [variables |-> <<>>, tasks |-> <<Task(<<"t">>, <<>>)>>]
    /\ taskArgs = <<>>
    /\ namedArgs = <<>>
    /\ globalVariables = <<>>
    /\ env \in Environments
    /\ input \in EnvInputs

\* texts that are one token of one pass: ?1, ?k, $A, $G, $env("FOO")
TokenP == Token(1)
TokenK == <<"?", "k">>
TokenA == Reference(<<"A">>)
TokenG == Reference(<<"G">>)
TokenE == EnvReference(FOO)
Plain == {<<"x">>}
OrderTokens == {TokenP, TokenK, TokenA, TokenG, TokenE}

\* one source per pass, each absent or holding a value that is plain or a token of
\* another pass
InitOrder ==
    /\ script \in {[variables |-> v, tasks |-> <<Task(<<"t">>, <<>>)>>] :
                       v \in {<<>>} \cup {<<Variable(<<"A">>, w)>> :
                                              w \in Plain \cup {TokenP, TokenK, TokenG}}}
    /\ taskArgs \in {<<>>} \cup {(<<"t">> :> <<w>>) : w \in Plain \cup {TokenK, TokenA, TokenG}}
    /\ namedArgs \in {<<>>} \cup {<<[key |-> <<"k">>, value |-> w]>> :
                                      w \in Plain \cup {TokenP, TokenA, TokenG}}
    /\ globalVariables \in {<<>>} \cup {<<[key |-> <<"G">>, value |-> w]>> :
                                            w \in Plain \cup {TokenP, TokenK, TokenA, TokenE}}
    /\ env \in {<<>>, (FOO :> TokenA), (FOO :> <<"x">>)}
    /\ input \in OrderTokens

InitResolve == ResolverIdle /\ (InitDeclared \/ InitPositional \/ InitEnv \/ InitOrder)

Resolve ==
    /\ resolved = <<>>
    /\ resolved' = <<replaceVariables(taskName, input)>>
    /\ UNCHANGED <<script, taskArgs, namedArgs, globalVariables, env, files, stack, ret,
                   pending, result, console, executed, returned, effects, calls, cli,
                   input, taskName, raised, suspended, queue, exit, lines, lineNo,
                   currentTask>>

NextResolve == Resolve

SpecResolve == InitResolve /\ [][NextResolve]_vars

(***************************************************************************)
(* C8: when the global declarations of a script have pairwise distinct     *)
(* names, resolving $NAME (no runtime variable set) yields exactly the     *)
(* declared VALUE, whatever else the script declares and in whatever order.*)
(***************************************************************************)
DistinctNames(variables) ==
    \A i, j \in DOMAIN variables : i # j => variables[i].name # variables[j].name

C8_DeclaredValue ==
    (resolved # <<>> /\ globalVariables = <<>> /\ DistinctNames(script.variables)) =>
        \A k \in DOMAIN script.variables :
            input = Reference(script.variables[k].name) =>
                resolved[1] = script.variables[k].value

(***************************************************************************)
(* C9: when a script declares the same global name more than once with     *)
(* different values, resolving $NAME yields the value of the last          *)
(* declaration of NAME.                                                    *)
(***************************************************************************)
DeclarationsOf(name) == {k \in DOMAIN script.variables : script.variables[k].name = name}

LastDeclared(name) ==
    script.variables[CHOOSE k \in DeclarationsOf(name) :
                         \A h \in DeclarationsOf(name) : h <= k].value

C9_LastDeclarationWins ==
    (resolved # <<>> /\ globalVariables = <<>>) =>
        \A n \in VarNames :
            (Cardinality(DeclarationsOf(n)) > 1 /\ input = Reference(n)) =>
                resolved[1] = LastDeclared(n)

(***************************************************************************)
(* C10: with n positional arguments registered for the task, every token   *)
(* ?k with 1 <= k <= n is replaced by the k-th argument and every token ?k *)
(* with k > n is left unchanged, multi-digit k included; with [a, b],      *)
(* ?1-?2 resolves to a-b and ?3 stays ?3.                                  *)
(***************************************************************************)
C10_Positional ==
    (resolved # <<>> /\ script.variables = <<>>) =>
        /\ \A k \in 1..MaxIndex :
               input = Token(k) =>
                   resolved[1] = IF k <= Len(ArgsOf(taskName)) THEN ArgsOf(taskName)[k]
                                 ELSE input
        /\ (input = <<"?", "1", "-", "?", "2">> /\ ArgsOf(taskName) = << <<"a">>, <<"b">> >>)
               => resolved[1] = <<"a", "-", "b">>

(***************************************************************************)
(* C11: resolving a text containing $env("FOO") replaces the reference by  *)
(* the value of FOO when it is set and by the empty string when it is      *)
(* unset; an unset reference never remains in the resolved text.           *)
(***************************************************************************)
EnvValue(name) == IF name \in DOMAIN env THEN env[name] ELSE <<>>

C11_EnvReference ==
    resolved # <<>> =>
        /\ input = EnvReference(FOO) => resolved[1] = EnvValue(FOO)
        /\ input = <<"<">> \o EnvReference(FOO) \o <<">">> =>
               resolved[1] = <<"<">> \o EnvValue(FOO) \o <<">">>

(***************************************************************************)
(* C12: every executeTask call and every command execution ends by         *)
(* returning an ExecutionResult: a fault raised while resolving variables, *)
(* spawning a run command or deleting a file is converted into a result    *)
(* with success = false and a message, and no fault leaves the executor.   *)
(***************************************************************************)
IsExecutionResult(r) ==
    /\ DOMAIN r \subseteq {"success", "message"}
    /\ "success" \in DOMAIN r
    /\ r.success \in BOOLEAN
    /\ ~r.success => "message" \in DOMAIN r

TopLevelReturns == Cardinality({k \in DOMAIN returned : returned[k].depth = 1})

C12_FaultsBecomeResults ==
    /\ raised = <<>>
    /\ \A k \in DOMAIN executed : IsExecutionResult(executed[k].result)
    /\ \A k \in DOMAIN returned : IsExecutionResult(returned[k].result)
    /\ \A k \in DOMAIN result : IsExecutionResult(result[k])
    /\ Idle => TopLevelReturns = calls
    /\ \A k \in DOMAIN executed :
           (executed[k].type \in KnownTypes /\ ResolverFault) =>
               executed[k].result = Failure(ErrorExecutingMessage(executed[k].type))

\* a command whose resolution threw has ended its task with a failure result
C12_Witness ==
    /\ Idle
    /\ ResolverFault
    /\ \E k \in DOMAIN executed :
           /\ executed[k].type = "ech"
           /\ result = <<Failure(ErrorExecutingMessage("ech"))>>
           /\ returned[Len(returned)].result = Failure(ErrorExecutingMessage("ech"))

(***************************************************************************)
(* C13: del is idempotent.  del of a path whose file does not exist        *)
(* returns success and changes no file, on the first and on every repeated *)
(* execution; del of an existing file removes it and returns success,      *)
(* unless the file system refuses; so after del commands on one path that  *)
(* each returned success the file is absent.                               *)
(***************************************************************************)
DeletedPaths == {effects[k].data : k \in {j \in DOMAIN effects :
                                              effects[j].kind \in {"delete", "warn"}}}

DelStep ==
    (AtCommand({"del"}) /\ ~ResolverFault /\ Len(executed') = Len(executed) + 1) =>
        LET filePath == replaceVariables(Top.name, CurrentCommand.args[1])
            fullPath == ResolvePath(filePath)
            r == executed'[Len(executed')].result
        IN  /\ fullPath \notin files => (r = Ok /\ files' = files)
            /\ fullPath \in files =>
                   \/ r = Ok /\ files' = files \ {fullPath}
                   \/ /\ r = Failure(Cat3(<<"Failed to delete ">>, filePath,
                                           <<": ", "error.message">>))
                      /\ files' = files
            /\ r.success => (fullPath \notin files' /\ fullPath \in DeletedPaths')

AtUnknown ==
    /\ stack # <<>>
    /\ ret = <<>>
    /\ pending = <<>>
    /\ Top.pc <= Len(Commands(Top))
    /\ CurrentCommand.type \notin KnownTypes

UnknownStep ==
    (AtUnknown /\ stack' # stack) =>
        /\ Len(executed') = Len(executed) + 1
        /\ executed'[Len(executed')].id = Top.id
        /\ executed'[Len(executed')].index = Top.pc
        /\ executed'[Len(executed')].result = Failure(UnknownMessage(CurrentCommand.type))
        /\ UNCHANGED <<console, files, globalVariables, effects, pending, namedArgs,
                       taskArgs>>
        /\ Len(returned') = Len(returned) + 1
        /\ returned'[Len(returned')].id = Top.id
        /\ returned'[Len(returned')].result = Failure(UnknownMessage(CurrentCommand.type))

C14_UnknownCommand ==
    /\ [](\A k \in DOMAIN executed :
             executed[k].type \notin KnownTypes =>
                 executed[k].result = Failure(UnknownMessage(executed[k].type)))
    /\ [][UnknownStep]_vars

\* an unknown command that was not the last of its task has failed the task
C14_Witness ==
    \E k \in DOMAIN executed :
        /\ executed[k].type = "foo"
        /\ executed[k].index < Len(CommandsOf(executed[k].task))
        /\ HasReturned(executed[k].id)
        /\ ReturnedEntry(executed[k].id).result = Failure(<<"Unknown command: ", "foo">>)

(***************************************************************************)
(* The parser (parseSSALContent).  A line is a sequence of characters      *)
(* without line terminators; the regular expressions of the parser are     *)
(* computed on the characters, leftmost match first, as match() does.      *)
(***************************************************************************)

\* \s, for the white space a line of the model can hold
Space == {" ", "\t"}

\* \w
WordChars ==
    {"a", "b", "c", "d", "e", "f", "g", "h", "i", "j", "k", "l", "m", "n", "o", "p", "q",
     "r", "s", "t", "u", "v", "w", "x", "y", "z", "A", "B", "C", "D", "E", "F", "G", "H",
     "I", "J", "K", "L", "M", "N", "O", "P", "Q", "R", "S", "T", "U", "V", "W", "X", "Y",
     "Z", "0", "1", "2", "3", "4", "5", "6", "7", "8", "9", "_"}

\* the first index from i on whose character is not in class: where a greedy
\* class* that starts at i ends
RECURSIVE SpanEnd(_, _, _)
SpanEnd(t, i, class) ==
    IF i <= Len(t) /\ t[i] \in class THEN SpanEnd(t, i + 1, class) ELSE i

\* the index of the first '"' from i on, Len(t) + 1 when there is none: where
\* [^"]* that starts at i ends
RECURSIVE QuoteEnd(_, _)
QuoteEnd(t, i) ==
    IF i > Len(t) \/ t[i] = "\"" THEN i ELSE QuoteEnd(t, i + 1)

IsAt(t, i, c) == i <= Len(t) /\ t[i] = c

\* String.prototype.trim
RECURSIVE TrimEnd(_)
TrimEnd(t) ==
    IF t # <<>> /\ t[Len(t)] \in Space THEN TrimEnd(SubSeq(t, 1, Len(t) - 1)) ELSE t

Trim(t) == TrimEnd(SubSeq(t, SpanEnd(t, 1, Space), Len(t)))

\* line.startsWith(prefix)
StartsWith(t, prefix) == MatchAt(t, prefix, 1)

NoMatch == <<>>

\* /var\s+(\w+)\s*=\s*"([^"]*)"$/ matched from s: <<name, value>>
VarMatchAt(t, s) ==
    LET a == SpanEnd(t, s + 3, Space)
        b == SpanEnd(t, a, WordChars)
        c == SpanEnd(t, b, Space)
        d == SpanEnd(t, c + 1, Space)
        q == QuoteEnd(t, d + 1)
    IN  IF /\ MatchAt(t, <<"v", "a", "r">>, s)
           /\ a > s + 3
           /\ b > a
           /\ IsAt(t, c, "=")
           /\ IsAt(t, d, "\"")
           /\ q = Len(t)
        THEN <<SubSeq(t, a, b - 1), SubSeq(t, d + 1, q - 1)>>
        ELSE NoMatch

\* /task\s+(\w+):$/ matched from s: <<name>>
TaskMatchAt(t, s) ==
    LET a == SpanEnd(t, s + 4, Space)
        b == SpanEnd(t, a, WordChars)
    IN  IF /\ MatchAt(t, <<"t", "a", "s", "k">>, s)
           /\ a > s + 4
           /\ b > a
           /\ IsAt(t, b, ":")
           /\ b = Len(t)
        THEN <<SubSeq(t, a, b - 1)>>
        ELSE NoMatch

\* the common head /\s+(\w+)\s+/ of the command patterns matched from s
WordFrom(t, s) == SpanEnd(t, s, Space)
WordEnd(t, s) == SpanEnd(t, WordFrom(t, s), WordChars)
ArgFrom(t, s) == SpanEnd(t, WordEnd(t, s), Space)
HeadAt(t, s) ==
    /\ s <= Len(t)
    /\ WordFrom(t, s) > s
    /\ WordEnd(t, s) > WordFrom(t, s)
    /\ ArgFrom(t, s) > WordEnd(t, s)
WordAt(t, s) == SubSeq(t, WordFrom(t, s), WordEnd(t, s) - 1)

\* /\s+(\w+)\s+"([^"]*)"\s+"([^"]*)"$/ matched from s: <<type, first, second>>
TwoQuotedAt(t, s) ==
    LET c == ArgFrom(t, s)
        q1 == QuoteEnd(t, c + 1)
        d == SpanEnd(t, q1 + 1, Space)
        q2 == QuoteEnd(t, d + 1)
    IN  IF /\ HeadAt(t, s)
           /\ IsAt(t, c, "\"")
           /\ q1 <= Len(t)
           /\ d > q1 + 1
           /\ IsAt(t, d, "\"")
           /\ q2 = Len(t)
        THEN <<WordAt(t, s), SubSeq(t, c + 1, q1 - 1), SubSeq(t, d + 1, q2 - 1)>>
        ELSE NoMatch

\* /\s+(\w+)\s+"([^"]*)"$/ matched from s: <<type, quoted>>
OneQuotedAt(t, s) ==
    LET c == ArgFrom(t, s)
        q1 == QuoteEnd(t, c + 1)
    IN  IF HeadAt(t, s) /\ IsAt(t, c, "\"") /\ q1 = Len(t)
        THEN <<WordAt(t, s), SubSeq(t, c + 1, q1 - 1)>>
        ELSE NoMatch

\* /\s+(\w+)\s+"([^"]*)"\s*(.*)$/ matched from s: <<type, quoted, tail>>
QuotedTailAt(t, s) ==
    LET c == ArgFrom(t, s)
        q1 == QuoteEnd(t, c + 1)
    IN  IF HeadAt(t, s) /\ IsAt(t, c, "\"") /\ q1 <= Len(t)
        THEN <<WordAt(t, s), SubSeq(t, c + 1, q1 - 1),
               SubSeq(t, SpanEnd(t, q1 + 1, Space), Len(t))>>
        ELSE NoMatch

\* /\s+(\w+)\s+(.+)$/ matched from s: <<type, text>>; when nothing follows the
\* white space after the word, \s+ gives its last character back to (.+)
UnquotedAt(t, s) ==
    LET c == ArgFrom(t, s)
    IN  IF ~HeadAt(t, s) THEN NoMatch
        ELSE IF c <= Len(t) THEN <<WordAt(t, s), SubSeq(t, c, Len(t))>>
        ELSE IF c - WordEnd(t, s) >= 2 THEN <<WordAt(t, s), <<t[Len(t)]>> >>
        ELSE NoMatch

\* the pattern of that name matched from s
PatternAt(pattern, t, s) ==
    CASE pattern = "var" -> VarMatchAt(t, s)
      [] pattern = "task" -> TaskMatchAt(t, s)
      [] pattern = "two" -> TwoQuotedAt(t, s)
      [] pattern = "one" -> OneQuotedAt(t, s)
      [] pattern = "tail" -> QuotedTailAt(t, s)
      [] pattern = "text" -> UnquotedAt(t, s)

\* String.prototype.match: the match from the least s for which there is one
RECURSIVE Leftmost(_, _, _)
Leftmost(pattern, t, s) ==
    IF s > Len(t) THEN NoMatch
    ELSE IF PatternAt(pattern, t, s) # NoMatch THEN PatternAt(pattern, t, s)
    ELSE Leftmost(pattern, t, s + 1)

\* rawLine.match(/^\s+\w+/)
Indented(t) == t # <<>> /\ t[1] \in Space /\ WordEnd(t, 1) > WordFrom(t, 1)

\* line === '' || line.startsWith('#')
Skipped(line) == line = <<>> \/ line[1] = "#"

\* currentTask.commands.push(command)
PushCommandFirst(s, current, command) ==
    [s EXCEPT !.tasks[1].commands = Append(@, command)]

PushCommand(s, current, command) ==
    [s EXCEPT !.tasks[current].commands = Append(@, command)]

Parser(s, current) == [script |-> s, currentTask |-> current]

\* a var line that always declares a global variable
OnVarAlwaysGlobal(s, current, m) ==
    IF m = NoMatch THEN Parser(s, current)
    ELSE Parser([s EXCEPT !.variables = Append(@, Variable(m[1], m[2]))], current)

\* if (line.startsWith('var ')) { ... continue; }
OnVar(s, current, m) ==
    IF m = NoMatch THEN Parser(s, current)
    ELSE IF current # 0
    THEN Parser(PushCommand(s, current, Cmd(<<"v", "a", "r">>, <<m[1], m[2]>>)), current)
    ELSE Parser([s EXCEPT !.variables = Append(@, Variable(m[1], m[2]))], current)

\* a task line that closes the open task when it does not match
OnTaskCloses(s, current, m) ==
    IF m = NoMatch THEN Parser(s, 0)
    ELSE Parser([s EXCEPT !.tasks = Append(@, Task(m[1], <<>>))], Len(s.tasks) + 1)

\* if (line.startsWith('task ')) { ... continue; }
OnTask(s, current, m) ==
    IF m = NoMatch THEN Parser(s, current)
    ELSE Parser([s EXCEPT !.tasks = Append(@, Task(m[1], <<>>))], Len(s.tasks) + 1)

\* commandMatch[2] + (commandMatch[3] ? " " + commandMatch[3].trim() : '')
JoinTail(quoted, tail) == IF tail # <<>> THEN quoted \o <<" ">> \o Trim(tail) ELSE quoted

\* the cascade of the four command patterns on rawLine
OnCommand(s, current, rawLine) ==
    LET two == Leftmost("two", rawLine, 1)
        one == Leftmost("one", rawLine, 1)
        tail == Leftmost("tail", rawLine, 1)
        text == Leftmost("text", rawLine, 1)
    IN  IF two # NoMatch
        THEN Parser(PushCommand(s, current, Cmd(two[1], <<two[2], two[3]>>)), current)
        ELSE IF one # NoMatch
        THEN Parser(PushCommand(s, current, Cmd(one[1], <<one[2]>>)), current)
        ELSE IF tail # NoMatch
        THEN Parser(PushCommand(s, current, Cmd(tail[1], <<JoinTail(tail[2], tail[3])>>)),
                    current)
        ELSE IF text # NoMatch
        THEN Parser(PushCommand(s, current, Cmd(text[1], <<text[2]>>)), current)
        ELSE Parser(s, current)

\* the body of the for loop of parseSSALContent on one line
ParseStep(s, current, rawLine) ==
    LET line == Trim(rawLine)
    IN  IF Skipped(line) THEN Parser(s, current)
        ELSE IF StartsWith(line, <<"v", "a", "r", " ">>)
        THEN OnVar(s, current, Leftmost("var", line, 1))
        ELSE IF StartsWith(line, <<"t", "a", "s", "k", " ">>)
        THEN OnTask(s, current, Leftmost("task", line, 1))
        ELSE IF current # 0 /\ Indented(rawLine) THEN OnCommand(s, current, rawLine)
        ELSE Parser(s, current)

MaxLines == 3    \* lines of the parsed content

LineVar == <<"v", "a", "r", " ", "A", " ", "=", " ", "\"", "x", "\"">>  \* `var A = "x"`
LineVarIndented == <<" ", " ", "v", "a", "r", " ", "B", " ", "=", " ", "\"", "y", "\"">>  \* `  var B = "y"`
LineVarOpen == <<"v", "a", "r", " ", "C", " ", "=", " ", "\"", "z">>  \* `var C = "z`
LineTaskA == <<"t", "a", "s", "k", " ", "a", ":">>  \* `task a:`
LineTaskB == <<"t", "a", "s", "k", " ", "b", ":">>  \* `task b:`
LineTaskBad == <<"t", "a", "s", "k", " ", "a", " ", "b", ":">>  \* `task a b:`
LineBlank == <<" ", " ">>  \* `  `
LineComment == <<" ", " ", "#", " ", "c">>  \* `  # c`
LineTwo == <<" ", " ", "e", "c", "h", " ", "\"", "a", "\"", " ", "\"", "b", "\"">>  \* `  ech "a" "b"`
LineOne == <<" ", " ", "e", "c", "h", " ", "\"", "a", "\"">>  \* `  ech "a"`
LineTail == <<" ", " ", "e", "c", "h", " ", "\"", "a", "\"", " ", " ", "t", " ">>  \* `  ech "a"  t `
LineText == <<" ", " ", "r", "u", "n", " ", "a", " ", "b">>  \* `  run a b`
LineTextQuoted == <<" ", " ", "r", "u", "n", " ", "e", "c", "h", "o", " ", "\"", "a", "\"">>  \* `  run echo "a"`
LineWord == <<" ", " ", "e", "c", "h">>  \* `  ech`
LineFlush == <<"e", "c", "h", " ", "\"", "a", "\"">>  \* `ech "a"`

LinePool ==
    {LineVar, LineVarIndented, LineVarOpen, LineTaskA, LineTaskB, LineTaskBad, LineBlank,
     LineComment, LineTwo, LineOne, LineTail, LineText, LineTextQuoted, LineWord, LineFlush}

InitParse ==
    /\ lines \in SeqsUpTo(LinePool, MaxLines)
    /\ lineNo = 1
    /\ currentTask = 0
    /\ script = [variables |-> <<>>, tasks |-> <<>>]
    /\ taskArgs = <<>>
    /\ namedArgs = <<>>
    /\ globalVariables = <<>>
    /\ env = <<>>
    /\ files = {}
    /\ stack = <<>>
    /\ ret = <<>>
    /\ pending = <<>>
    /\ result = <<>>
    /\ console = <<>>
    /\ executed = <<>>
    /\ returned = <<>>
    /\ effects = <<>>
    /\ calls = 0
    /\ cli = NoInputs
    /\ input = <<>>
    /\ taskName = <<>>
    /\ resolved = <<>>
    /\ raised = <<>>
    /\ suspended = <<>>
    /\ queue = <<>>
    /\ exit = <<>>

\* one iteration of the loop over lines
ParseLine ==
    /\ lineNo \in 1..Len(lines)
    /\ script' = ParseStep(script, currentTask, lines[lineNo]).script
    /\ currentTask' = ParseStep(script, currentTask, lines[lineNo]).currentTask
    /\ lineNo' = lineNo + 1
    /\ UNCHANGED <<taskArgs, namedArgs, globalVariables, env, files, stack, ret, pending,
                   result, console, executed, returned, effects, calls, cli, input,
                   taskName, resolved, raised, suspended, queue, exit, lines>>

NextParse == ParseLine

SpecParse == InitParse /\ [][NextParse]_vars

(***************************************************************************)
(* Lines as the grammar of the language writes them                        *)
(***************************************************************************)

\* var NAME = "VALUE"
VarLine(name, value) ==
    <<"v", "a", "r", " ">> \o name \o <<" ", "=", " ", "\"">> \o value \o <<"\"">>
\* task NAME:
TaskLine(name) == <<"t", "a", "s", "k", " ">> \o name \o <<":">>

LineNames == {<<"A">>, <<"B">>, <<"a">>, <<"b">>}
LineValues == {<<"x">>, <<"y">>}

IsVarLine(rawLine) == \E n \in LineNames, v \in LineValues : Trim(rawLine) = VarLine(n, v)
IsTaskLine(rawLine) == \E n \in LineNames : Trim(rawLine) = TaskLine(n)

Parsing == lineNo \in 1..Len(lines) /\ lineNo' = lineNo + 1

(***************************************************************************)
(* C15: the parser gives a matching var NAME = "VALUE" line its meaning    *)
(* from the parser state alone.  While no task has been opened it appends  *)
(* a global Variable and no command; once a task is open it appends a var  *)
(* Command [NAME, VALUE] to the current task and no global Variable; the   *)
(* task stays open until the next task line or the end of input, so no var *)
(* line after the first task line ever adds a global variable.             *)
(***************************************************************************)
VarLineStep ==
    Parsing =>
        /\ \A n \in LineNames, v \in LineValues :
               Trim(lines[lineNo]) = VarLine(n, v) =>
                   /\ currentTask' = currentTask
                   /\ IF script.tasks = <<>>
                      THEN script' = [script EXCEPT !.variables = Append(@, Variable(n, v))]
                      ELSE script' =
                               [script EXCEPT ![ "tasks" ][Len(script.tasks)].commands =
                                   Append(@, Cmd(<<"v", "a", "r">>, <<n, v>>))]
        /\ script.tasks # <<>> => script'.variables = script.variables
        /\ currentTask' # currentTask => IsTaskLine(lines[lineNo])

C15_VarByContext == [](currentTask = Len(script.tasks)) /\ [][VarLineStep]_vars

\* one var line became a global variable and the same line, after a task line,
\* a var command of that task
C15_Witness ==
    /\ lineNo > Len(lines)
    /\ script.variables = <<Variable(<<"A">>, <<"x">>)>>
    /\ script.tasks = <<Task(<<"a">>, <<Cmd(<<"v", "a", "r">>, << <<"A">>, <<"x">> >>)>>)>>

(***************************************************************************)
(* C16: parseSSALContent returns a Script for every input text and never   *)
(* aborts.  Each input line adds at most one element (one global variable, *)
(* one task or one command); a blank line, a comment line or a line that   *)
(* matches no recognized pattern adds nothing and does not change which    *)
(* task is current.                                                        *)
(***************************************************************************)
RECURSIVE CommandCount(_, _)
CommandCount(tasks, k) ==
    IF k > Len(tasks) THEN 0 ELSE Len(tasks[k].commands) + CommandCount(tasks, k + 1)

Elements(s) == Len(s.variables) + Len(s.tasks) + CommandCount(s.tasks, 1)

IsScript(s) ==
    /\ DOMAIN s = {"variables", "tasks"}
    /\ \A k \in DOMAIN s.variables : DOMAIN s.variables[k] = {"name", "value"}
    /\ \A k \in DOMAIN s.tasks :
           /\ DOMAIN s.tasks[k] = {"name", "commands"}
           /\ \A c \in DOMAIN s.tasks[k].commands :
                  /\ DOMAIN s.tasks[k].commands[c] = {"type", "args"}
                  /\ Len(s.tasks[k].commands[c].args) \in {1, 2}

\* the lines of the pool that no pattern of the language matches
Unrecognized == {LineVarOpen, LineTaskBad, LineWord, LineFlush}

AddsNothing(rawLine) ==
    \/ Trim(rawLine) = <<>>
    \/ Trim(rawLine)[1] = "#"
    \/ rawLine \in Unrecognized

LineStep ==
    Parsing =>
        /\ Elements(script') \in {Elements(script), Elements(script) + 1}
        /\ Len(script'.variables) >= Len(script.variables)
        /\ Len(script'.tasks) >= Len(script.tasks)
        /\ AddsNothing(lines[lineNo]) => (script' = script /\ currentTask' = currentTask)

C16_NeverAborts ==
    /\ [](/\ IsScript(script)
          /\ lineNo \in 1..(Len(lines) + 1)
          /\ lineNo \in 1..Len(lines) =>
                 /\ IsScript(ParseStep(script, currentTask, lines[lineNo]).script)
                 /\ ParseStep(script, currentTask, lines[lineNo]).currentTask
                        \in 0..Len(ParseStep(script, currentTask, lines[lineNo]).script.tasks))
    /\ [][LineStep]_vars

\* a task line that does not match, between a task line and a command line, left
\* the task open
C16_Witness ==
    /\ lineNo > Len(lines)
    /\ lines = <<LineTaskA, LineTaskBad, LineOne>>
    /\ script = [variables |-> <<>>,
                 tasks |-> <<Task(<<"a">>, <<Cmd(<<"e", "c", "h">>, << <<"a">> >>)>>)>>]

(***************************************************************************)
(* C17: the parser output preserves source order and nesting.  Tasks       *)
(* appear in the order of their task NAME: lines, every command is         *)
(* appended to the most recently opened task and commands keep line order  *)
(* within it, and command lines that come before the first task line       *)
(* produce nothing.                                                        *)
(***************************************************************************)
CommandLines == {LineTwo, LineOne, LineTail, LineText, LineTextQuoted}

NameOfTaskLine(rawLine) == CHOOSE n \in LineNames : Trim(rawLine) = TaskLine(n)

\* the names of the task lines among the first n lines, in line order
RECURSIVE TaskLineNames(_, _)
TaskLineNames(ls, n) ==
    IF n = 0 THEN <<>>
    ELSE IF IsTaskLine(ls[n]) THEN Append(TaskLineNames(ls, n - 1), NameOfTaskLine(ls[n]))
    ELSE TaskLineNames(ls, n - 1)

IsPrefix(a, b) == Len(a) <= Len(b) /\ SubSeq(b, 1, Len(a)) = a

OrderStep ==
    Parsing =>
        /\ IsPrefix(script.variables, script'.variables)
        /\ Len(script.tasks) <= Len(script'.tasks)
        /\ \A k \in DOMAIN script.tasks :
               /\ script'.tasks[k].name = script.tasks[k].name
               /\ IsPrefix(script.tasks[k].commands, script'.tasks[k].commands)
               /\ k < Len(script.tasks) => script'.tasks[k] = script.tasks[k]
        /\ \A k \in DOMAIN script'.tasks :
               k > Len(script.tasks) => script'.tasks[k].commands = <<>>
        /\ lines[lineNo] \in CommandLines =>
               IF script.tasks = <<>> THEN script' = script
               ELSE /\ Len(script'.tasks) = Len(script.tasks)
                    /\ Len(script'.tasks[Len(script.tasks)].commands) =
                           Len(script.tasks[Len(script.tasks)].commands) + 1

C17_OrderAndNesting ==
    /\ []([k \in DOMAIN script.tasks |-> script.tasks[k].name] =
              TaskLineNames(lines, lineNo - 1))
    /\ [][OrderStep]_vars

\* with two tasks opened, the command line went to the second
C17_Witness ==
    /\ lineNo > Len(lines)
    /\ lines = <<LineTaskB, LineTaskA, LineText>>
    /\ script.tasks = <<Task(<<"b">>, <<>>),
                        Task(<<"a">>, <<Cmd(<<"r", "u", "n">>, << <<"a", " ", "b">> >>)>>)>>

(***************************************************************************)
(* C18: for each indented command line in an open task exactly one Command *)
(* is produced, by the first pattern that matches in the order two quoted  *)
(* arguments, one quoted argument, one quoted argument plus trailing text, *)
(* unquoted text.  W "A" "B" gives args [A, B]; W "A" gives [A]; W "A"     *)
(* tail gives one arg equal to A, a single space and the trimmed tail; W   *)
(* text gives one arg equal to text verbatim.                              *)
(***************************************************************************)
Ech == <<"e", "c", "h">>
Run == <<"r", "u", "n">>

\* the command each command line of the pool stands for: its first word and the
\* arguments that follow it
ExpectedCommand(rawLine) ==
    IF rawLine = LineTwo THEN Cmd(Ech, << <<"a">>, <<"b">> >>)
    ELSE IF rawLine = LineOne THEN Cmd(Ech, << <<"a">> >>)
    ELSE IF rawLine = LineTail THEN Cmd(Ech, << <<"a", " ", "t">> >>)
    ELSE IF rawLine = LineText THEN Cmd(Run, << <<"a", " ", "b">> >>)
    ELSE Cmd(Run, << <<"e", "c", "h", "o", " ", "\"", "a", "\"">> >>)

CommandStep ==
    (Parsing /\ lines[lineNo] \in CommandLines /\ script.tasks # <<>>) =>
        script' = [script EXCEPT ![ "tasks" ][Len(script.tasks)].commands =
                      Append(@, ExpectedCommand(lines[lineNo]))]

C18_CommandPatterns == [][CommandStep]_vars

(***************************************************************************)
(* A caller that does not await: executeTask is called again while an      *)
(* earlier call is suspended at an await.  The call that runs is (stack,   *)
(* ret, pending); the others wait in suspended.                            *)
(***************************************************************************)

Context == [stack |-> stack, ret |-> ret, pending |-> pending]

\* the running call is at an await or has returned, so that other code can run
AtAwait == IF stack = <<>> THEN TRUE ELSE pending # <<>> \/ ret # <<>> \/ Top.pc > 1

\* the caller calls executeTask(name) while a call it made is not settled
CallUnawaited(name) ==
    /\ ~Idle
    /\ AtAwait
    /\ calls < MaxCalls
    /\ calls' = calls + 1
    /\ SetTaskArgs(name, cli.args)
    /\ SetNamedArgs(cli.named)
    /\ IF FindTask(name) = 0
       THEN /\ result' = <<Failure(NotFoundMessage(name))>>
            /\ returned' = Append(returned, [id |-> Started + 1, task |-> name, depth |-> 1,
                                             result |-> Failure(NotFoundMessage(name))])
            /\ UNCHANGED <<stack, ret, pending, suspended>>
       ELSE /\ suspended' = Append(suspended, Context)
            /\ stack' = <<Activation(name, FindTask(name))>>
            /\ ret' = <<>>
            /\ pending' = <<>>
            /\ UNCHANGED <<result, returned>>
    /\ UNCHANGED <<script, globalVariables, env, files, console, executed, effects, cli,
                   input, taskName, resolved, raised, queue, exit, lines, lineNo,
                   currentTask>>

\* the event loop goes on with another call: the running one waits in its place,
\* unless it has returned
Resume(i) ==
    /\ i \in DOMAIN suspended
    /\ AtAwait
    /\ stack' = suspended[i].stack
    /\ ret' = suspended[i].ret
    /\ pending' = suspended[i].pending
    /\ suspended' = IF Idle
                    THEN SubSeq(suspended, 1, i - 1) \o SubSeq(suspended, i + 1, Len(suspended))
                    ELSE [suspended EXCEPT ![i] = Context]
    /\ UNCHANGED <<script, taskArgs, namedArgs, globalVariables, env, files, result,
                   console, executed, returned, effects, calls, cli, input, taskName,
                   resolved, raised, queue, exit, lines, lineNo, currentTask>>

NextConcurrent ==
    \/ Next
    \/ \E name \in CallNames : CallUnawaited(name)
    \/ \E i \in DOMAIN suspended : Resume(i)

\* the scripts of the executor model whose task a is one of two bodies and whose
\* task b runs a shell command and deletes twice
InitConcurrent ==
    /\ Init
    /\ script.tasks[1].commands \in {<<TskB, VarA>>, <<EchA, FooX>>}
    /\ script.tasks[2].commands = <<RunR, DelF, DelF>>

SpecConcurrent == InitConcurrent /\ [][NextConcurrent]_vars

(***************************************************************************)
(* C19: within one executor instance no two commands are ever in progress  *)
(* at the same time: a command starts only after the previous command (an  *)
(* asynchronous run command and a whole nested tsk invocation included)    *)
(* has completed, for every sequence of executeTask calls a caller can     *)
(* make on that instance.                                                  *)
(***************************************************************************)
\* a run command whose callback has not fired, or a tsk command whose nested task
\* has not been handed back
InProgress(context) ==
    context.pending # <<>> \/ context.ret # <<>> \/ Len(context.stack) > 1

CommandsInProgress ==
    Cardinality({i \in DOMAIN suspended : InProgress(suspended[i])})
        + (IF InProgress(Context) THEN 1 ELSE 0)

C19_OneCommandAtATime == CommandsInProgress <= 1

(***************************************************************************)
(* The batch runner (main): the task names of the command line are run in  *)
(* order, each call awaited, and the process exits at the first failure.   *)
(***************************************************************************)

\* the batch has not started, or the call main awaited last returned success
LastSucceeded == calls = 0 \/ (result # <<>> /\ result[1].success)

\* a runner that goes on with the batch whatever the last task returned
BatchNextRegardless ==
    /\ Idle
    /\ exit = <<>>
    /\ queue # <<>>
    /\ queue' = Tail(queue)
    /\ calls' = calls + 1
    /\ SetTaskArgs(Head(queue), cli.args)
    /\ SetNamedArgs(cli.named)
    /\ ExecuteTask(Head(queue))
    /\ UNCHANGED <<script, globalVariables, env, files, ret, pending, console, executed,
                   effects, cli, input, taskName, resolved, raised, suspended, exit,
                   lines, lineNo, currentTask>>

\* setTaskArgs, setNamedArgs and executeTask for the next task name
BatchNext ==
    /\ Idle
    /\ exit = <<>>
    /\ LastSucceeded
    /\ queue # <<>>
    /\ queue' = Tail(queue)
    /\ calls' = calls + 1
    /\ SetTaskArgs(Head(queue), cli.args)
    /\ SetNamedArgs(cli.named)
    /\ ExecuteTask(Head(queue))
    /\ UNCHANGED <<script, globalVariables, env, files, ret, pending, console, executed,
                   effects, cli, input, taskName, resolved, raised, suspended, exit,
                   lines, lineNo, currentTask>>

\* if (!result.success) { ...; process.exit(1); }
BatchExit ==
    /\ Idle
    /\ exit = <<>>
    /\ ~LastSucceeded
    /\ exit' = <<1>>
    /\ UNCHANGED <<script, taskArgs, namedArgs, globalVariables, env, files, stack, ret,
                   pending, result, console, executed, returned, effects, calls, cli,
                   input, taskName, resolved, raised, suspended, queue, lines, lineNo,
                   currentTask>>

\* every task of the command line has run: main returns and the process ends
BatchDone ==
    /\ Idle
    /\ exit = <<>>
    /\ LastSucceeded
    /\ queue = <<>>
    /\ exit' = <<0>>
    /\ UNCHANGED <<script, taskArgs, namedArgs, globalVariables, env, files, stack, ret,
                   pending, result, console, executed, returned, effects, calls, cli,
                   input, taskName, resolved, raised, suspended, queue, lines, lineNo,
                   currentTask>>

\* the command lines that name up to MaxCalls tasks
InitBatch ==
    /\ \E c \in Configurations :
           script \in Scripts(c.variables) /\ cli = c.cli /\ files = c.files
    /\ script.tasks[2].commands \in {<<VarY>>, <<RunR, DelF, DelF>>}
    /\ queue \in SeqsUpTo(CallNames, MaxCalls)
    /\ taskArgs = <<>>
    /\ namedArgs = <<>>
    /\ globalVariables = <<>>
    /\ env = <<>>
    /\ stack = <<>>
    /\ ret = <<>>
    /\ pending = <<>>
    /\ result = <<>>
    /\ console = <<>>
    /\ executed = <<>>
    /\ returned = <<>>
    /\ effects = <<>>
    /\ calls = 0
    /\ input = <<>>
    /\ taskName = <<>>
    /\ resolved = <<>>
    /\ raised = <<>>
    /\ suspended = <<>>
    /\ exit = <<>>
    /\ lines = <<>>
    /\ lineNo = 0
    /\ currentTask = 0

NextBatch ==
    \/ BatchNext
    \/ BatchExit
    \/ BatchDone
    \/ Echo
    \/ SetVariable
    \/ \E fault \in BOOLEAN : DeleteFile(fault)
    \/ UnknownCommand
    \/ RunCommand
    \/ SpawnFault
    \/ ResolveFault
    \/ \E error \in BOOLEAN : ExecCallback(error)
    \/ RunTask
    \/ RunTaskReturn
    \/ TaskCompleted

SpecBatch == InitBatch /\ [][NextBatch]_vars

(***************************************************************************)
(* C20: the batch runner executes the requested tasks in the order given   *)
(* on the command line, each only after the previous one returned success; *)
(* as soon as a task returns a failure result no later task of the batch   *)
(* is executed and the run ends with a failure exit status.                *)
(***************************************************************************)
TopLevel == SelectSeq(returned, LAMBDA r : r.depth = 1)

\* the task names main has called executeTask for, in call order
Called ==
    [k \in DOMAIN TopLevel |-> TopLevel[k].task]
        \o (IF stack # <<>> THEN <<stack[1].name>> ELSE <<>>)

BatchStep ==
    /\ Called' \o queue' = Called \o queue
    /\ calls' # calls =>
           /\ calls' = calls + 1
           /\ Idle
           /\ queue # <<>>
           /\ Called' = Append(Called, Head(queue))
           /\ \A k \in DOMAIN TopLevel : TopLevel[k].result.success
    /\ exit' # exit =>
           /\ exit = <<>>
           /\ Idle
           /\ exit' = IF \A k \in DOMAIN TopLevel : TopLevel[k].result.success
                      THEN <<0>> ELSE <<1>>

C20_BatchStopsAtFailure ==
    /\ [](/\ Len(Called) = calls
          /\ \A k \in DOMAIN TopLevel :
                 ~TopLevel[k].result.success =>
                     /\ k = Len(Called)
                     /\ stack = <<>>
                     /\ exit \in {<<>>, <<1>>}
          /\ exit = <<0>> => queue = <<>>)
    /\ [][BatchStep]_vars

\* the first task of a longer batch failed: the process exited with status 1 and
\* the rest of the batch was never called
C20_Witness ==
    /\ exit = <<1>>
    /\ queue # <<>>
    /\ calls = 1
    /\ executed # <<>>
    /\ ~result[1].success

(***************************************************************************)
(* C21: the runtime variable store is empty at construction and only a var *)
(* command changes it: run, del, ech, an unknown command, a tsk of a       *)
(* missing task and a task-not-found call leave it unchanged; no operation *)
(* of the executor changes the script, and the argument lists and the      *)
(* named-argument map change only by the setters main calls.               *)
(***************************************************************************)
\* the step is setTaskArgs and setNamedArgs of main followed by executeTask
Registration ==
    /\ Idle
    /\ calls' = calls + 1
    /\ namedArgs' = cli.named
    /\ \E name \in CallNames : taskArgs' = (name :> cli.args) @@ taskArgs

StoreStep ==
    /\ script' = script
    /\ globalVariables' # globalVariables =>
           /\ AtCommand({"var"})
           /\ globalVariables' = Put(globalVariables, CurrentCommand.args[1],
                                     replaceVariables(Top.name, CurrentCommand.args[2]))
    /\ (taskArgs' # taskArgs \/ namedArgs' # namedArgs) => Registration

C21_StoreFrame ==
    /\ [](calls = 0 => globalVariables = <<>>)
    /\ [][StoreStep]_vars

\* executed entries of the given types after a var command, in a store that is set
LaterThanVar(types) ==
    \E k \in DOMAIN executed : \E j \in DOMAIN executed :
        k < j /\ executed[k].type = "var" /\ executed[j].type \in types

\* after a var command had set the store, a del, an ech and an unknown command
\* were executed
C21_Witness ==
    /\ globalVariables # <<>>
    /\ LaterThanVar({"del"}) /\ LaterThanVar({"ech"}) /\ LaterThanVar({"foo"})

(***************************************************************************)
(* C22: variable resolution applies its passes in the fixed order          *)
(* positional arguments, named arguments, declared variables, runtime      *)
(* variables, environment references, each pass scanning the text the      *)
(* earlier ones produced: an argument whose value contains $NAME is        *)
(* expanded by the later variable pass, a declared or runtime variable     *)
(* whose value contains ?1 or ?key is not expanded as an argument.         *)
(***************************************************************************)
\* what a pass makes of a text that is one token: the value of its source when the
\* token is its own and the source is there, the text itself otherwise
PassOn(text, token, present, value) == IF text = token /\ present THEN value ELSE text

\* the five passes in the order of the claim, on a one-token text
InOrder(text) ==
    LET p1 == PassOn(text, TokenP, ArgsOf(taskName) # <<>>,
                     IF ArgsOf(taskName) # <<>> THEN ArgsOf(taskName)[1] ELSE <<>>)
        p2 == PassOn(p1, TokenK, namedArgs # <<>>,
                     IF namedArgs # <<>> THEN namedArgs[1].value ELSE <<>>)
        p3 == PassOn(p2, TokenA, script.variables # <<>>,
                     IF script.variables # <<>> THEN script.variables[1].value ELSE <<>>)
        p4 == PassOn(p3, TokenG, globalVariables # <<>>,
                     IF globalVariables # <<>> THEN globalVariables[1].value ELSE <<>>)
    IN  PassOn(p4, TokenE, FOO \in DOMAIN env, EnvValue(FOO))

\* the inputs of InitOrder
OrderCase ==
    /\ input \in OrderTokens
    /\ \A k \in DOMAIN script.variables : script.variables[k].name = <<"A">>
    /\ \A k \in DOMAIN namedArgs : namedArgs[k].key = <<"k">>
    /\ \A k \in DOMAIN globalVariables : globalVariables[k].key = <<"G">>
    /\ Len(script.variables) <= 1 /\ Len(ArgsOf(taskName)) <= 1

Declared(value) == script.variables = <<Variable(<<"A">>, value)>>
Runtime(value) == globalVariables = <<[key |-> <<"G">>, value |-> value]>>

C22_PassOrder ==
    (resolved # <<>> /\ OrderCase) =>
        /\ resolved[1] = InOrder(input)
        \* an argument that names a variable is expanded by the variable pass
        /\ (input = TokenP /\ ArgsOf(taskName) = <<TokenA>> /\ Declared(<<"x">>))
               => resolved[1] = <<"x">>
        /\ (input = TokenK /\ namedArgs # <<>> /\ namedArgs[1].value = TokenG
             /\ Runtime(<<"x">>)) => resolved[1] = <<"x">>
        \* a variable that names an argument is not expanded
        /\ (input = TokenA /\ \E w \in {TokenP, TokenK} : Declared(w))
               => resolved[1] = script.variables[1].value
        /\ (input = TokenG /\ script.variables = <<>>
             /\ \E w \in {TokenP, TokenK} : Runtime(w))
               => resolved[1] = globalVariables[1].value

\* ?1 was resolved with the argument $A, A declared as ?k and k a named argument:
\* the variable pass expanded the argument and no pass expanded ?k
C22_Witness ==
    /\ resolved = <<TokenK>>
    /\ input = TokenP
    /\ ArgsOf(taskName) = <<TokenA>>
    /\ Declared(TokenK)
    /\ namedArgs # <<>>

(***************************************************************************)
(* Recursion: scripts whose tsk commands form cycles, and the stack limit  *)
(***************************************************************************)

TskS == Cmd("tsk", << <<"a">> >>)                         \* tsk "a"

\* bodies of task a and of task b: with and without a cycle, the cycle with and
\* without a command that is awaited before the tsk command
CycleBodiesA == {<<TskB>>, <<EchA, TskB>>, <<TskS>>, <<EchA, TskS>>, <<RunR, TskB>>,
                 <<TskC, TskS>>}
CycleBodiesB == {<<TskS>>, <<RunR>>, <<EchA, TskC>>, <<FooX, TskS>>}

InitCycle ==
    /\ script \in {[variables |-> <<>>,
                     tasks |-> <<Task(<<"a">>, ca), Task(<<"b">>, cb),
                                 Task(<<"c">>, <<EchA>>)>>] :
                       ca \in CycleBodiesA, cb \in CycleBodiesB}
    /\ cli = NoInputs
    /\ files = {}
    /\ taskArgs = <<>>
    /\ namedArgs = <<>>
    /\ globalVariables = <<>>
    /\ env = <<>>
    /\ stack = <<>>
    /\ ret = <<>>
    /\ pending = <<>>
    /\ result = <<>>
    /\ console = <<>>
    /\ executed = <<>>
    /\ returned = <<>>
    /\ effects = <<>>
    /\ calls = 0
    /\ input = <<>>
    /\ taskName = <<>>
    /\ resolved = <<>>
    /\ raised = <<>>
    /\ suspended = <<>>
    /\ queue = <<>>
    /\ exit = <<>>
    /\ lines = <<>>
    /\ lineNo = 0
    /\ currentTask = 0

\* executeTask, executeCommand and runTask run without an await from the call of
\* executeTask to the tsk command when that command is the first of its task: the
\* activations from i up were all entered on one call stack
Synchronous(i) == \A j \in i..Len(stack) : stack[j].pc = 1

\* the task the tsk command names is running already and everything since then was
\* entered on one call stack: this recursion exhausts the call stack
StackExhausted ==
    LET name == replaceVariables(Top.name, CurrentCommand.args[1])
    IN  \E i \in DOMAIN stack : stack[i].name = name /\ Synchronous(i)

\* the call stack is exhausted (RangeError) in the recursion of a tsk command: the
\* catch of executeCommand makes a result of it
StackFault ==
    /\ AtCommand({"tsk"})
    /\ ~ResolverFault
    /\ Len(stack) = MaxDepth
    /\ StackExhausted
    /\ Continue(Failure(ErrorExecutingMessage("tsk")))
    /\ UNCHANGED <<script, taskArgs, namedArgs, globalVariables, env, files, pending,
                   console, effects, calls>>
    /\ Unused

\* the steps of the executor once main has called executeTask
Progress ==
    \/ Echo
    \/ UnknownCommand
    \/ RunCommand
    \/ \E error \in BOOLEAN : ExecCallback(error)
    \/ RunTask
    \/ RunTaskReturn
    \/ TaskCompleted
    \/ StackFault

NextCycle ==
    \/ \E name \in CallNames : Invoke(name)
    \/ Progress

\* the microtask queue is run until it is empty, and the callback of exec fires
\* when the process it started has ended
SpecCycle == InitCycle /\ [][NextCycle]_vars /\ WF_vars(Progress)

(***************************************************************************)
(* C23: executeTask eventually returns a result when the tsk commands      *)
(* reachable from the invoked task form no cycle and every run command     *)
(* completes.  There is no cycle detection: a tsk command that names a     *)
(* task already running starts it again and produces no result of its own, *)
(* so a task that reaches itself keeps recursing, to the stack limit,      *)
(* unless one of its commands fails.                                       *)
(***************************************************************************)
\* the tasks the tsk commands of task i name
Callees(i) ==
    {FindTask(script.tasks[i].commands[k].args[1]) :
        k \in {h \in DOMAIN script.tasks[i].commands :
                  script.tasks[i].commands[h].type = "tsk"}} \ {0}

RECURSIVE ReachFrom(_, _)
ReachFrom(S, n) ==
    IF n = 0 THEN S ELSE ReachFrom(S \cup UNION {Callees(i) : i \in S}, n - 1)

\* the tasks reachable from task i through one tsk command or more
Reachable(i) == ReachFrom(Callees(i), Len(script.tasks))

Cyclic(i) == \E j \in {i} \cup Reachable(i) : j \in Reachable(j)

\* the tsk command at hand names a task that is running
Recurring ==
    /\ AtCommand({"tsk"})
    /\ \E i \in DOMAIN stack :
           stack[i].name = replaceVariables(Top.name, CurrentCommand.args[1])

SomeCommandFailed == \E k \in DOMAIN executed : ~executed[k].result.success

\* below the stack limit a tsk command that names a task of the script starts it,
\* running or not, and no result comes of that step
RecurStep ==
    (AtCommand({"tsk"}) /\ Len(stack) < MaxDepth
     /\ FindTask(replaceVariables(Top.name, CurrentCommand.args[1])) # 0) =>
        /\ Len(stack') = Len(stack) + 1
        /\ stack'[Len(stack')].name = replaceVariables(Top.name, CurrentCommand.args[1])
        /\ stack'[Len(stack')].pc = 1
        /\ UNCHANGED <<executed, returned, result, ret>>

EchQ == Cmd("ech", << <<"?", "1", "-", "?", "2">> >>)     \* ech "?1-?2"
Constructor == <<"c", "o", "n", "s", "t", "r", "u", "c", "t", "o", "r">>
TskK == Cmd("tsk", <<Constructor>>)                       \* tsk "constructor"

ArgLists == {<<>>, << <<"p">> >>, << <<"q">>, <<"r">> >>}
ArgsCallNames == {<<"a">>, <<"b">>}

InitArgs ==
    /\ script \in {[variables |-> <<>>,
                     tasks |-> <<Task(<<"a">>, ca), Task(<<"b">>, <<EchQ>>),
                                 Task(Constructor, <<EchQ>>)>>] :
                       ca \in {<<EchQ, TskB>>, <<TskB, EchQ>>, <<EchQ, TskK>>}}
    /\ cli = NoInputs
    /\ files = {}
    /\ taskArgs = <<>>
    /\ namedArgs = <<>>
    /\ globalVariables = <<>>
    /\ env = <<>>
    /\ stack = <<>>
    /\ ret = <<>>
    /\ pending = <<>>
    /\ result = <<>>
    /\ console = <<>>
    /\ executed = <<>>
    /\ returned = <<>>
    /\ effects = <<>>
    /\ calls = 0
    /\ input = <<>>
    /\ taskName = <<>>
    /\ resolved = <<>>
    /\ raised = <<>>
    /\ suspended = <<>>
    /\ queue = <<>>
    /\ exit = <<>>
    /\ lines = <<>>
    /\ lineNo = 0
    /\ currentTask = 0

\* main: setTaskArgs(currentTask, currentArgs), setNamedArgs, executeTask
InvokeWith(name, args) ==
    /\ Idle
    /\ calls < MaxCalls
    /\ calls' = calls + 1
    /\ SetTaskArgs(name, args)
    /\ SetNamedArgs(cli.named)
    /\ ExecuteTask(name)
    /\ UNCHANGED <<script, globalVariables, env, files, ret, pending, console, executed,
                   effects>>
    /\ Unused

NextArgs ==
    \/ \E name \in ArgsCallNames : \E args \in ArgLists : InvokeWith(name, args)
    \/ Echo
    \/ ResolveFault
    \/ RunTask
    \/ RunTaskReturn
    \/ TaskCompleted

SpecArgs == InitArgs /\ [][NextArgs]_vars

(***************************************************************************)
(* C24: positional substitution inside a task reached through tsk uses the *)
(* list registered with setTaskArgs under the called task's own name,      *)
(* never the caller's; setTaskArgs for one name leaves the lists of all    *)
(* other names unchanged; when no list is registered for the executing     *)
(* task every ?k token is left unchanged.                                  *)
(***************************************************************************)
\* what ?k becomes with the list registered under the name, ?k itself without one
OwnArgument(name, k) ==
    IF name \in DOMAIN taskArgs /\ k <= Len(taskArgs[name]) THEN taskArgs[name][k]
    ELSE Token(k)

\* ech "?1-?2" in an activation of any depth prints the arguments of its own task
OwnListStep ==
    (AtCommand({"ech"}) /\ CurrentCommand = EchQ) =>
        /\ Len(effects') = Len(effects) + 1
        /\ effects'[Len(effects')].kind = "echo"
        /\ effects'[Len(effects')].data =
               OwnArgument(Top.name, 1) \o <<"-">> \o OwnArgument(Top.name, 2)

\* a registration changes the list of one name
RegisterStep ==
    taskArgs' # taskArgs =>
        \E name \in ArgsCallNames :
            /\ DOMAIN taskArgs' = DOMAIN taskArgs \cup {name}
            /\ \A n \in DOMAIN taskArgs \ {name} : taskArgs'[n] = taskArgs[n]

C24_OwnList == [][OwnListStep /\ RegisterStep]_vars

(***************************************************************************)
(* C25: every Command the parser produces from an indented line of an open *)
(* task has as its type the first word of that line, whichever of the four *)
(* patterns produced it; no later word of the line becomes the type.       *)
(***************************************************************************)
\* the line is handed to the four command patterns: it is no var line and no task
\* line, a task is open and the line is indented
ForCommandPatterns(rawLine) ==
    /\ ~Skipped(Trim(rawLine))
    /\ ~StartsWith(Trim(rawLine), <<"v", "a", "r", " ">>)
    /\ ~StartsWith(Trim(rawLine), <<"t", "a", "s", "k", " ">>)
    /\ currentTask # 0
    /\ Indented(rawLine)

FirstWordStep ==
    (Parsing /\ ForCommandPatterns(lines[lineNo])
     /\ CommandCount(script'.tasks, 1) > CommandCount(script.tasks, 1)) =>
        LET commands == script'.tasks[currentTask].commands
        IN  commands[Len(commands)].type = WordAt(lines[lineNo], 1)

C25_TypeIsFirstWord == [][FirstWordStep]_vars

(***************************************************************************)
(* C26: a failing task is not rolled back: the var assignments made by the *)
(* commands that ran before the failing command, in the task itself or in  *)
(* nested tasks, remain in the runtime variable store after executeTask    *)
(* returned failure and are seen by every later executeTask call.          *)
(***************************************************************************)
\* the store that the first n effects leave: every assignment made, in order
RECURSIVE Assigned(_)
Assigned(n) ==
    IF n = 0 THEN <<>>
    ELSE IF effects[n].kind = "assign"
    THEN Put(Assigned(n - 1), effects[n].data[1], effects[n].data[2])
    ELSE Assigned(n - 1)

ValueIn(entries, key) ==
    entries[CHOOSE k \in DOMAIN entries : entries[k].key = key].value

\* top-level calls that returned failure
FailedCalls == {r \in DOMAIN returned : returned[r].depth = 1 /\ ~returned[r].result.success}

C26_NoRollback ==
    /\ globalVariables = Assigned(Len(effects))
    /\ \A r \in FailedCalls : \A j \in DOMAIN effects :
           (/\ effects[j].id > returned[r].id
            /\ effects[j].kind = "echo"
            /\ EchoArgument(j) = <<"$", "A">>
            /\ script.variables = <<>>
            /\ \E k \in DOMAIN Assigned(j - 1) : Assigned(j - 1)[k].key = <<"A">>)
               => effects[j].data = ValueIn(Assigned(j - 1), <<"A">>)

\* a call assigned A and then failed, and a later call printed that value
C26_Witness ==
    \E r \in FailedCalls : \E i, j \in DOMAIN effects :
        /\ i < j
        /\ effects[i].kind = "assign" /\ effects[i].data[1] = <<"A">>
        /\ effects[i].id <= returned[r].id
        /\ effects[j].id > returned[r].id
        /\ effects[j].kind = "echo" /\ EchoArgument(j) = <<"$", "A">>
        /\ effects[j].data = effects[i].data[2]
        /\ globalVariables # <<>>

====
